---- MODULE Spec2Model ----
(***************************************************************************)
(* x-thread-dl: the variant selection of Scraper.extract_video_url, the    *)
(* fetch operations of Scraper, and the persistence walk of                *)
(* save_parsed_thread_data, as three state machines over one set of        *)
(* variables.  Each machine has its own specification; the variables of    *)
(* the other two stay at their idle values.                                *)
(***************************************************************************)
EXTENDS Integers, Sequences, FiniteSets, TLC

VARIABLES
    tweet_data_in,   \* extract_video_url: the record as the caller passed it
    tweet_data,      \* extract_video_url: the same record object, as the calls leave it
    returned,        \* extract_video_url: the outcome of each call so far, in order
    operation,       \* fetch: the public operation the caller invoked
    url,             \* fetch: its url argument
    limit,           \* fetch: its limit / reply_limit argument
    fetch_pc,        \* fetch: where the operation stands
    backend,         \* fetch: the invocations the backend has recorded, in order
    fetched,         \* fetch: what the operation returned or raised
    parsed_data,     \* save: the parsed_data argument of save_parsed_thread_data
    save_pc,         \* save: where the run stands
    reply_i,         \* save: the position of the reply being processed
    video_i,         \* save: the position of the video being processed
    dirs,            \* save: the directories that exist
    files,           \* save: the files that exist, each with its content
    saved_files,     \* save: the saved_files list
    log,             \* save: the warning and error records logged, in order
    engine,          \* save: the yt-dlp download invocations, in order
    failed,          \* save: the sub-operations that failed in this run, in order: a makedirs
                     \*       or a write that raised, a download the engine did not complete
    save_result,     \* save: what the run returned or raised
    run,             \* save: the number of the run over this output directory
    first            \* save: what the first run returned, once a second one is made

sel_vars == <<tweet_data_in, tweet_data, returned>>
fetch_vars == <<operation, url, limit, fetch_pc, backend, fetched>>
run_vars == <<run, first>>
save_vars == <<parsed_data, save_pc, reply_i, video_i, dirs, files, saved_files,
               log, engine, failed, save_result, run, first>>
vars == <<tweet_data_in, tweet_data, returned,
          operation, url, limit, fetch_pc, backend, fetched,
          parsed_data, save_pc, reply_i, video_i, dirs, files, saved_files,
          log, engine, failed, save_result, run, first>>

(***************************************************************************)
(* Bounds of the model.                                                    *)
(***************************************************************************)
MaxVariants == 3     \* longest variant list drawn
MaxBitrate == 2      \* bitrates are drawn from 0..MaxBitrate, or the key is missing
MaxCalls == 2        \* extract_video_url calls made on one record
MaxSegments == 3     \* path segments of a URL
MaxItems == 2        \* records in a dataset the backend returns
MaxLimit == 2        \* largest reply limit drawn
MaxReplies == 2      \* replies of a thread
MaxRerunItems == 1   \* items with a text and a video in a thread that is saved twice
MaxVideos == 2       \* entries of one item's video list
MaxTextItems == 2    \* items of a thread whose texts are of any shape
MaxUrlItems == 2     \* items of a thread whose video entries may lack a URL

(***************************************************************************)
(* Python values.  A value whose type the code does not control carries a  *)
(* tag; a dict is a function from its keys.                                *)
(***************************************************************************)
PyNone == [py |-> "None"]
PyStr(s) == [py |-> "str", val |-> s]
PyInt(n) == [py |-> "int", val |-> n]
PyList(s) == [py |-> "list", val |-> s]
PyDict(d) == [py |-> "dict", val |-> d]

\* The empty dict: a function with no key.
EmptyDict == [k \in {} |-> PyNone]

\* Mutant of Truthy: only None is false.
Truthy_not_none(x) == x.py # "None"

\* Python truthiness (bool(x)).
Truthy(x) ==
    CASE x.py = "None" -> FALSE
      [] x.py = "str"  -> x.val # ""
      [] x.py = "int"  -> x.val # 0
      [] x.py = "list" -> x.val # <<>>
      [] x.py = "dict" -> DOMAIN x.val # {}

\* dict.get(key, default) on a dict given as a function.
Get(d, key, default) == IF key \in DOMAIN d THEN d[key] ELSE default

\* What dict.get(key) returns for a missing key, where the value is a URL string.
None == "<None>"

(***************************************************************************)
(* Exceptions.  An exception is its class and the class of the exception   *)
(* it was raised from (`raise X(...) from e` sets __cause__), "" if none.  *)
(***************************************************************************)
Exception(kind) == [kind |-> kind, cause |-> ""]

\* Mutant of wrap: the handler is missing, the exception passes as it is.
wrap_leaks(e, wrapper) == e

\* `except Exception as e: raise Wrapper(...) from e`.
wrap(e, wrapper) == [kind |-> wrapper, cause |-> e.kind]

\* `except (Own, ...): raise` followed by `except Exception as e: raise
\* Wrapper(...) from e`, the pair that closes every public operation.
reraise_or_wrap(e, own, wrapper) == IF e.kind \in own THEN e ELSE wrap(e, wrapper)

(***************************************************************************)
(* Scraper.extract_video_url                                               *)
(***************************************************************************)
MP4 == "video/mp4"

\* Mutant of bitrate_key: a missing bitrate ranks below bitrate 0.
bitrate_key_missing_below_zero(v) == Get(v, "bitrate", -1)

\* key=lambda x: x.get('bitrate', 0)
bitrate_key(v) == Get(v, "bitrate", 0)

\* Mutant of sort_insert: reverse=True forgotten, the sort is ascending.
sort_insert_ascending(sorted, x) ==
    LET p == Cardinality({i \in 1..Len(sorted) :
                 Get(sorted[i], "bitrate", 0) <= Get(x, "bitrate", 0)})
    IN  SubSeq(sorted, 1, p) \o <<x>> \o SubSeq(sorted, p + 1, Len(sorted))

\* Mutant of sort_insert: among equal bitrates the later element goes first.
sort_insert_later_first(sorted, x) ==
    LET p == Cardinality({i \in 1..Len(sorted) :
                 Get(sorted[i], "bitrate", 0) > Get(x, "bitrate", 0)})
    IN  SubSeq(sorted, 1, p) \o <<x>> \o SubSeq(sorted, p + 1, Len(sorted))

\* list.sort(key=bitrate_key, reverse=True) on a one-element-longer list: x, the
\* last element, goes behind every element whose key is not smaller (Python's sort
\* is stable, and stays so under reverse=True).
sort_insert(sorted, x) ==
    LET p == Cardinality({i \in 1..Len(sorted) : bitrate_key(sorted[i]) >= bitrate_key(x)})
    IN  SubSeq(sorted, 1, p) \o <<x>> \o SubSeq(sorted, p + 1, Len(sorted))

RECURSIVE sort_by_bitrate(_)
sort_by_bitrate(s) ==
    IF s = <<>> THEN <<>>
    ELSE sort_insert(sort_by_bitrate(SubSeq(s, 1, Len(s) - 1)), s[Len(s)])

\* The block both record shapes run on a `variants` value x (lines 244-266 with
\* type/src, lines 272-294 with content_type/url):
\*   "raise"  len(), the iteration or variant.get raised (TypeError, AttributeError)
\*   "return" a variant was selected; `after` is x as the call leaves it
\*   "pass"   no variant: the code goes on behind the block
select_variant(x, type_key, url_key) ==
    IF x.py \in {"None", "int"} THEN [kind |-> "raise", after |-> x]
    ELSE IF x.py \in {"str", "dict"}
    THEN IF Truthy(x) THEN [kind |-> "raise", after |-> x]
                      ELSE [kind |-> "pass", after |-> x]
    ELSE LET variants == x.val
             IsMp4(v) == Get(v, type_key, None) = MP4
             mp4_variants == SelectSeq(variants, IsMp4)
         IN  IF mp4_variants # <<>>
             THEN [kind |-> "return",
                   value |-> Get(sort_by_bitrate(mp4_variants)[1], url_key, None),
                   after |-> x]
             ELSE IF variants # <<>>
             THEN [kind |-> "return",
                   value |-> Get(sort_by_bitrate(variants)[1], url_key, None),
                   after |-> PyList(sort_by_bitrate(variants))]
             ELSE [kind |-> "pass", after |-> x]

\* `key in x` for the values a record field can hold: a dict tests its keys, a
\* str tests for a substring (exact here: the model's strings are atoms), a list
\* tests its elements (dicts, never the key), anything else raises TypeError.
contains(x, key) ==
    CASE x.py = "dict" -> IF key \in DOMAIN x.val THEN "yes" ELSE "no"
      [] x.py = "str"  -> IF x.val = key THEN "yes" ELSE "no"
      [] x.py = "list" -> "no"
      [] OTHER         -> "raise"

\* Lines 270-294: the loop over tweet_data['mediaDetails'], from entry i on.
RECURSIVE media_loop(_, _)
\* Mutant of media_loop: the mp4 filter of line 280 reads 'type', the key of the
\* primary shape, where the media-details shape has 'content_type'.
media_loop_type_key(media, i) ==
    IF i > Len(media) THEN [kind |-> "pass", after |-> media]
    ELSE LET m == media[i]
         IN  IF Get(m, "type", None) = "video" /\ "video_info" \in DOMAIN m
                /\ "variants" \in DOMAIN m["video_info"]
             THEN LET r == select_variant(m["video_info"]["variants"], "type", "url")
                      after == [media EXCEPT ![i] =
                                   [m EXCEPT !["video_info"] =
                                       [m["video_info"] EXCEPT !["variants"] = r.after]]]
                  IN  IF r.kind = "pass" THEN media_loop(media, i + 1)
                      ELSE IF r.kind = "raise" THEN [kind |-> "raise", after |-> media]
                      ELSE [kind |-> "return", value |-> r.value, after |-> after]
             ELSE media_loop(media, i + 1)

media_loop(media, i) ==
    IF i > Len(media) THEN [kind |-> "pass", after |-> media]
    ELSE LET m == media[i]
         IN  IF Get(m, "type", None) = "video" /\ "video_info" \in DOMAIN m
                /\ "variants" \in DOMAIN m["video_info"]
             THEN LET r == select_variant(m["video_info"]["variants"], "content_type", "url")
                      after == [media EXCEPT ![i] =
                                   [m EXCEPT !["video_info"] =
                                       [m["video_info"] EXCEPT !["variants"] = r.after]]]
                  IN  IF r.kind = "pass" THEN media_loop(media, i + 1)
                      ELSE IF r.kind = "raise" THEN [kind |-> "raise", after |-> media]
                      ELSE [kind |-> "return", value |-> r.value, after |-> after]
             ELSE media_loop(media, i + 1)

\* The handlers that close extract_video_url (lines 298-302).
extract_handlers(e) == reraise_or_wrap(e, {"ScrapingError"}, "ScrapingError")

\* The call ends by raising, from inside the try: "explicit", the ScrapingError
\* of line 240; "wrapped", the TypeError or AttributeError of len(), `in`, the
\* iteration or .get on a value of the wrong type (written TypeError for both).
Raised(cause, data) ==
    LET e == extract_handlers(IF cause = "explicit" THEN Exception("ScrapingError")
                              ELSE Exception("TypeError"))
    IN  [kind |-> e.kind, value |-> None, cause |-> e.cause, data |-> data]
Returned(value, data) == [kind |-> "return", value |-> value, cause |-> "", data |-> data]

\* Lines 268-297: the mediaDetails alternative and the final `return None`.
media_details_part(td) ==
    IF "mediaDetails" \notin DOMAIN td.val THEN Returned(None, td)
    ELSE LET md == td.val["mediaDetails"]
         IN  IF md.py \in {"None", "int"} THEN Raised("wrapped", td)
             ELSE IF md.py \in {"str", "dict"}
             THEN IF Truthy(md) THEN Raised("wrapped", td) ELSE Returned(None, td)
             ELSE LET r == media_loop(md.val, 1)
                  IN  IF r.kind = "raise" THEN Raised("wrapped", td)
                      ELSE IF r.kind = "pass" THEN Returned(None, td)
                      ELSE Returned(r.value,
                               PyDict([td.val EXCEPT !["mediaDetails"] = PyList(r.after)]))

\* Mutant of extract_video_url: the primary shape is never looked at.
extract_video_url_media_only(td) ==
    IF ~Truthy(td) \/ td.py # "dict" THEN Raised("explicit", td)
    ELSE media_details_part(td)

\* Lines 238-302.  The outcome: what is returned or raised ("explicit": the raise
\* of line 240; "wrapped": an exception caught at line 301, the cause of the
\* ScrapingError that leaves the function), and the record as the
\* call leaves it.
extract_video_url(td) ==
    IF ~Truthy(td) \/ td.py # "dict" THEN Raised("explicit", td)
    ELSE IF "video" \in DOMAIN td.val /\ Truthy(td.val["video"])
    THEN LET video == td.val["video"]
             has == contains(video, "variants")
         IN  IF has = "raise" THEN Raised("wrapped", td)
             ELSE IF has = "no" THEN media_details_part(td)
             ELSE IF video.py # "dict" THEN Raised("wrapped", td)
             ELSE LET r == select_variant(video.val["variants"], "type", "src")
                      after == PyDict([td.val EXCEPT !["video"] =
                                   PyDict([video.val EXCEPT !["variants"] = r.after])])
                  IN  IF r.kind = "raise" THEN Raised("wrapped", td)
                      ELSE IF r.kind = "return" THEN Returned(r.value, after)
                      ELSE media_details_part(td)
    ELSE media_details_part(td)

(***************************************************************************)
(* The records extract_video_url is called on.                             *)
(***************************************************************************)
ContainerTypes == {MP4, "application/x-mpegURL"}
Urls == {"u1", "u2"}

\* A variant dict: its container type under type_key, its URL under url_key, and
\* a bitrate in 0..MaxBitrate or no 'bitrate' key at all.
Variants(type_key, url_key) ==
    LET Base == {(type_key :> t) @@ (url_key :> u) : t \in ContainerTypes, u \in Urls}
    IN  Base \cup {("bitrate" :> b) @@ v : b \in 0..MaxBitrate, v \in Base}

SeqsUpTo(S, n) == UNION {[1..k -> S] : k \in 0..n}

\* Primary shape: {id, video: {variants: [{type, bitrate, src}]}}.
PrimaryRecord(variants) ==
    PyDict([id |-> PyStr("1"), video |-> PyDict([variants |-> variants])])

\* One mediaDetails entry of type video.
VideoMedia(variants) == [type |-> "video", video_info |-> [variants |-> variants]]
PhotoMedia == [type |-> "photo"]

\* Media-details shape: {id, mediaDetails: [{type, video_info: {variants: [...]}}]}.
MediaRecord(media) == PyDict([id |-> PyStr("1"), mediaDetails |-> media])

\* A record carrying both shapes.
BothRecord(variants, media) ==
    PyDict([id |-> PyStr("1"), video |-> PyDict([variants |-> variants]),
            mediaDetails |-> media])

\* Well-formed records that carry no video, or an empty variant list.
NoVideoRecords ==
    {PyDict([id |-> PyStr("1")]),
     PyDict([id |-> PyStr("1"), video |-> PyNone]),
     PyDict([id |-> PyStr("1"), video |-> PyDict([duration |-> PyInt(7)])]),
     PrimaryRecord(PyList(<<>>)),
     MediaRecord(PyList(<<>>)),
     MediaRecord(PyList(<<PhotoMedia>>)),
     MediaRecord(PyList(<<VideoMedia(PyList(<<>>))>>)),
     BothRecord(PyList(<<>>), PyList(<<PhotoMedia, VideoMedia(PyList(<<>>))>>))}

\* The well-formed records that carry a variant list: one shape with a list of up
\* to MaxVariants entries, a mediaDetails list with an entry before the video, or
\* both shapes at once.
IsListRecord(td) ==
    \/ \E k \in 0..MaxVariants : \E v \in [1..k -> Variants("type", "src")] :
          td = PrimaryRecord(PyList(v))
    \/ \E k \in 0..MaxVariants : \E v \in [1..k -> Variants("content_type", "url")] :
          td = MediaRecord(PyList(<<VideoMedia(PyList(v))>>))
    \/ \E m \in {PhotoMedia, VideoMedia(PyList(<<>>))} :
          \E v \in SeqsUpTo(Variants("content_type", "url"), 1) :
              td = MediaRecord(PyList(<<m, VideoMedia(PyList(v))>>))
    \/ \E v \in SeqsUpTo(Variants("type", "src"), 1) :
          \E w \in SeqsUpTo(Variants("content_type", "url"), 1) :
              td = BothRecord(PyList(v), PyList(<<VideoMedia(PyList(w))>>))

\* The well-formed records with a mediaDetails list of two entries, each a photo
\* or a video with at most one variant, and with no primary shape or a primary
\* list of up to two variants.
IsTwoShapeRecord(td) ==
    LET Entries == {PhotoMedia} \cup
                   {VideoMedia(PyList(w)) : w \in SeqsUpTo(Variants("content_type", "url"), 1)}
    IN  \E m1 \in Entries, m2 \in Entries :
           \/ td = MediaRecord(PyList(<<m1, m2>>))
           \/ \E k \in 0..2 : \E v \in [1..k -> Variants("type", "src")] :
                 td = BothRecord(PyList(v), PyList(<<m1, m2>>))

\* Not a record at all, or a record whose video, variants or mediaDetails field
\* is neither a dict nor a list where one is expected.
WrongVariants == {PyNone, PyStr("abc"), PyInt(7), PyDict([k |-> PyInt(1)])}
MalformedRecords ==
    {PyNone, PyStr("abc"), PyInt(7), PyList(<<>>), PyList(<<PyInt(1)>>)}
    \cup {PyDict([id |-> PyStr("1"), video |-> x]) :
            x \in {PyStr("abc"), PyInt(7), PyList(<<PyInt(1)>>)}}
    \cup {PrimaryRecord(x) : x \in WrongVariants}
    \cup {MediaRecord(x) : x \in WrongVariants}
    \cup {MediaRecord(PyList(<<VideoMedia(x)>>)) : x \in WrongVariants}

\* Kept apart, in neither class: the record with no field at all, and records
\* with an empty value of the wrong type ('', 0, {}) where a dict or list belongs.
EmptyValues == {PyStr(""), PyInt(0), PyDict(EmptyDict)}
BorderlineRecords ==
    {PyDict(EmptyDict)}
    \cup {PyDict([id |-> PyStr("1"), video |-> x]) : x \in {PyStr(""), PyInt(0)}}
    \cup {PrimaryRecord(x) : x \in EmptyValues}
    \cup {MediaRecord(x) : x \in EmptyValues}
    \cup {MediaRecord(PyList(<<VideoMedia(x)>>)) : x \in EmptyValues}

\* The records drawn for a call.
IsTweetRecord(td) ==
    \/ td \in NoVideoRecords \cup MalformedRecords \cup BorderlineRecords
    \/ IsListRecord(td)

(***************************************************************************)
(* URLs.  A URL string is a sequence of tokens: an optional scheme, a host,*)
(* then "/" and a segment, repeated.  No token holds a "/", a scheme or a  *)
(* host name inside it, so matching on tokens is matching on characters.   *)
(***************************************************************************)
Hosts == {"x.com", "twitter.com", "example.com"}
WordSegments == {"user", "status", "123"}    \* each matches \w+
DigitSegments == {"123"}                     \* each matches \d+

RECURSIVE PathOf(_)
PathOf(segs) ==
    IF segs = <<>> THEN <<>>
    ELSE <<"/", segs[1]>> \o PathOf(SubSeq(segs, 2, Len(segs)))

UrlStrings ==
    {scheme \o <<host>> \o PathOf(segs) :
        scheme \in {<<>>, <<"https://">>}, host \in Hosts,
        segs \in SeqsUpTo(WordSegments, MaxSegments)}

\* The url arguments drawn: URL strings, the empty string, and a non-string.
UrlArguments == {PyStr(u) : u \in UrlStrings} \cup {PyStr(<<>>), PyNone}

\* `not url or not isinstance(url, str)` (lines 318, 352).
invalid_url(u) == u.py # "str" \/ u.val = <<>>

\* re.search(r'(?:twitter\.com|x\.com)/\w+/status/(\d+)', url) at position i.
pattern_at(u, i) ==
    /\ i + 6 <= Len(u)
    /\ u[i] \in {"twitter.com", "x.com"}
    /\ u[i + 1] = "/" /\ u[i + 2] \in WordSegments
    /\ u[i + 3] = "/" /\ u[i + 4] = "status"
    /\ u[i + 5] = "/" /\ u[i + 6] \in DigitSegments

\* Scraper._extract_tweet_id (lines 317-336): the id, None, or ValidationError.
extract_tweet_id(u) ==
    IF invalid_url(u) THEN [kind |-> "ValidationError", value |-> None]
    ELSE LET at == {i \in 1..Len(u.val) : pattern_at(u.val, i)}
         IN  IF at # {} THEN [kind |-> "return",
                              value |-> u.val[(CHOOSE i \in at : \A j \in at : i <= j) + 6]]
             ELSE [kind |-> "return", value |-> None]

\* Scraper._format_url (lines 351-359): the url with a scheme, or ValidationError.
format_url(u) ==
    IF invalid_url(u) THEN [kind |-> "ValidationError", value |-> <<>>]
    ELSE IF u.val[1] # "https://" THEN [kind |-> "return", value |-> <<"https://">> \o u.val]
    ELSE [kind |-> "return", value |-> u.val]

(***************************************************************************)
(* The fetch machine: one public operation of Scraper, step by step.  The  *)
(* backend is the Apify client: an actor call, then a dataset read, each   *)
(* of which it records and each of which may raise.                        *)
(***************************************************************************)
Operations == {"fetch_tweet", "fetch_tweet_replies", "fetch_tweet_and_replies"}

NoResult == [kind |-> "none", cause |-> "", tweet |-> 0, replies |-> <<>>, step |-> ""]

\* The operation ends by raising e; `step` keeps where e arose.
Raise(e, step) ==
    [kind |-> e.kind, cause |-> e.cause, tweet |-> 0, replies |-> <<>>, step |-> step]

\* The handlers that close fetch_tweet (lines 112-117), fetch_tweet_replies
\* (185-190) and fetch_tweet_and_replies (218-223).
scraper_handlers(e) == reraise_or_wrap(e, {"ValidationError", "ScrapingError"}, "ScrapingError")

\* The records of a dataset of n items, in backend order.
Items(n) == [i \in 1..n |-> i]

\* Mutant of no_items: the emptiness test is missing.
no_items_unchecked(dataset_items) == FALSE

\* `not dataset_items` (lines 101, 169).
no_items(dataset_items) == dataset_items = <<>>

\* What the backend keeps of one invocation: the actor, the call (the actor run
\* or the dataset read), the url it was given, whether it answered ("ok") or
\* failed ("raise"), and the number of items a dataset read answered with.
BackendCall(actor, call, outcome, n) ==
    [actor |-> actor, call |-> call, input |-> format_url(url).value,
     outcome |-> outcome, items |-> n]

FetchIdle ==
    /\ operation = "none" /\ url = PyNone /\ limit = 0
    /\ fetch_pc = "idle" /\ backend = <<>> /\ fetched = NoResult

SelIdle == tweet_data_in = PyNone /\ tweet_data = PyNone /\ returned = <<>>

NoFiles == [p \in {} |-> PyNone]

\* No first run is on record.
NoFirst == [pc |-> "none", saved_files |-> <<>>, failed |-> <<>>, written |-> {}]

SaveIdle ==
    /\ parsed_data = PyNone /\ save_pc = "idle" /\ reply_i = 0 /\ video_i = 0
    /\ dirs = {} /\ files = NoFiles /\ saved_files = <<>> /\ log = <<>>
    /\ engine = <<>> /\ failed = <<>> /\ save_result = [kind |-> "none"]
    /\ run = 0 /\ first = NoFirst

FetchInit ==
    /\ operation \in Operations
    /\ url \in UrlArguments
    /\ limit \in -1..MaxLimit
    /\ fetch_pc = IF operation = "fetch_tweet_replies" THEN "replies_validate"
                  ELSE "tweet_validate"
    /\ backend = <<>>
    /\ fetched = NoResult
    /\ SelIdle /\ SaveIdle

\* fetch_tweet, lines 60-80: the tweet id is extracted and the url formatted.
FetchTweetValidate ==
    /\ fetch_pc = "tweet_validate"
    /\ LET id == extract_tweet_id(url)
       IN  IF id.kind = "ValidationError" \/ id.value = None
                \/ format_url(url).kind = "ValidationError"
           THEN /\ fetch_pc' = "raised"
                /\ fetched' = Raise(scraper_handlers(Exception("ValidationError")),
                                    "tweet_validate")
           ELSE /\ fetch_pc' = "tweet_actor"
                /\ UNCHANGED fetched
    /\ UNCHANGED <<operation, url, limit, backend, sel_vars, save_vars>>

\* Mutant of FetchTweetActor: under fetch_tweet_and_replies a failed actor call
\* is passed over and the replies are fetched all the same.
FetchTweetActor_failure_ignored ==
    /\ fetch_pc = "tweet_actor"
    /\ \E ok \in BOOLEAN :
          IF ok
          THEN /\ backend' = Append(backend, BackendCall("tweet", "actor", "ok", 0))
               /\ fetch_pc' = "tweet_dataset" /\ UNCHANGED fetched
          ELSE /\ backend' = Append(backend, BackendCall("tweet", "actor", "raise", 0))
               /\ IF operation = "fetch_tweet_and_replies"
                  THEN fetch_pc' = "replies_validate" /\ UNCHANGED fetched
                  ELSE /\ fetch_pc' = "raised"
                       /\ fetched' = Raise(scraper_handlers(wrap(Exception("ApifyError"),
                                                                 "ScrapingError")),
                                           "tweet_actor")
    /\ UNCHANGED <<operation, url, limit, sel_vars, save_vars>>

\* fetch_tweet, lines 83-90: the actor call; what it raises is wrapped.
FetchTweetActor ==
    /\ fetch_pc = "tweet_actor"
    /\ \E ok \in BOOLEAN :
          IF ok
          THEN /\ backend' = Append(backend, BackendCall("tweet", "actor", "ok", 0))
               /\ fetch_pc' = "tweet_dataset" /\ UNCHANGED fetched
          ELSE /\ backend' = Append(backend, BackendCall("tweet", "actor", "raise", 0))
               /\ fetch_pc' = "raised"
               /\ fetched' = Raise(scraper_handlers(wrap(Exception("ApifyError"),
                                                         "ScrapingError")), "tweet_actor")
    /\ UNCHANGED <<operation, url, limit, sel_vars, save_vars>>

\* fetch_tweet, lines 93-110: the dataset read, the empty check, the first item.
\* Under fetch_tweet_and_replies (line 212) fetch_tweet_replies comes next.
FetchTweetDataset ==
    /\ fetch_pc = "tweet_dataset"
    /\ \/ /\ backend' = Append(backend, BackendCall("tweet", "dataset", "raise", 0))
          /\ fetch_pc' = "raised"
          /\ fetched' = Raise(scraper_handlers(wrap(Exception("ApifyError"),
                                                    "ScrapingError")), "tweet_dataset")
       \/ \E n \in 0..MaxItems :
             /\ backend' = Append(backend, BackendCall("tweet", "dataset", "ok", n))
             /\ IF no_items(Items(n))
                THEN /\ fetch_pc' = "raised"
                     /\ fetched' = Raise(scraper_handlers(Exception("ScrapingError")),
                                         "tweet_empty")
                ELSE IF Items(n) = <<>>     \* dataset_items[0] raises IndexError
                THEN /\ fetch_pc' = "raised"
                     /\ fetched' = Raise(scraper_handlers(Exception("IndexError")),
                                         "tweet_item")
                ELSE IF operation = "fetch_tweet"
                THEN /\ fetch_pc' = "returned"
                     /\ fetched' = [kind |-> "return", cause |-> "", tweet |-> Items(n)[1],
                                    replies |-> <<>>, step |-> ""]
                ELSE /\ fetch_pc' = "replies_validate"
                     /\ fetched' = [fetched EXCEPT !.tweet = Items(n)[1]]
    /\ UNCHANGED <<operation, url, limit, sel_vars, save_vars>>

\* fetch_tweet_replies, lines 134-148: the limit is checked, the url formatted.
FetchRepliesValidate ==
    /\ fetch_pc = "replies_validate"
    /\ IF limit <= 0 \/ format_url(url).kind = "ValidationError"
       THEN /\ fetch_pc' = "raised"
            /\ fetched' = Raise(scraper_handlers(Exception("ValidationError")),
                                "replies_validate")
       ELSE /\ fetch_pc' = "replies_actor"
            /\ UNCHANGED fetched
    /\ UNCHANGED <<operation, url, limit, backend, sel_vars, save_vars>>

\* fetch_tweet_replies, lines 151-158: the actor call; what it raises is wrapped.
FetchRepliesActor ==
    /\ fetch_pc = "replies_actor"
    /\ \E ok \in BOOLEAN :
          IF ok
          THEN /\ backend' = Append(backend, BackendCall("replies", "actor", "ok", 0))
               /\ fetch_pc' = "replies_dataset" /\ UNCHANGED fetched
          ELSE /\ backend' = Append(backend, BackendCall("replies", "actor", "raise", 0))
               /\ fetch_pc' = "raised"
               /\ fetched' = Raise(scraper_handlers(wrap(Exception("ApifyError"),
                                                         "ScrapingError")), "replies_actor")
    /\ UNCHANGED <<operation, url, limit, sel_vars, save_vars>>

\* fetch_tweet_replies, lines 161-183: the dataset read; an empty dataset is
\* returned as [].  Lines 214-217: fetch_tweet_and_replies returns both.
FetchRepliesDataset ==
    /\ fetch_pc = "replies_dataset"
    /\ \/ /\ backend' = Append(backend, BackendCall("replies", "dataset", "raise", 0))
          /\ fetch_pc' = "raised"
          /\ fetched' = Raise(scraper_handlers(wrap(Exception("ApifyError"),
                                                    "ScrapingError")), "replies_dataset")
       \/ \E n \in 0..MaxItems :
             /\ backend' = Append(backend, BackendCall("replies", "dataset", "ok", n))
             /\ fetch_pc' = "returned"
             /\ fetched' = [kind |-> "return", cause |-> "", tweet |-> fetched.tweet,
                            replies |-> IF no_items(Items(n)) THEN <<>> ELSE Items(n),
                            step |-> ""]
    /\ UNCHANGED <<operation, url, limit, sel_vars, save_vars>>

FetchNext ==
    \/ FetchTweetValidate
    \/ FetchTweetActor
    \/ FetchTweetDataset
    \/ FetchRepliesValidate
    \/ FetchRepliesActor
    \/ FetchRepliesDataset

SpecFetch == FetchInit /\ [][FetchNext]_vars

(***************************************************************************)
(* The filesystem.  A path is a sequence of components; a file name is its *)
(* stem followed by its extensions (<<..., "videos", "r1", ".mp4">> is     *)
(* .../videos/r1.mp4).  `dirs` is the set of directories, `files` maps     *)
(* each file's path to its content.                                        *)
(***************************************************************************)
Prefixes(path) == {SubSeq(path, 1, k) : k \in 1..Len(path)}
dirname(path) == SubSeq(path, 1, Len(path) - 1)

\* A file's content, and the run that wrote it.
JsonFile(data) == [kind |-> "json", size |-> 1, text |-> data, url |-> "", run |-> run]
TruncatedFile == [kind |-> "json", size |-> 0, text |-> PyNone, url |-> "", run |-> run]
VideoFile(video_url, size) ==
    [kind |-> "video", size |-> size, text |-> PyNone, url |-> video_url, run |-> run]
PartFile(video_url) ==
    [kind |-> "part", size |-> 1, text |-> PyNone, url |-> video_url, run |-> run]

\* What an exception of this module carries: its class, its cause, and the path
\* or URL its message names.
ErrorFrom(e, path, about_url) ==
    [kind |-> e.kind, cause |-> e.cause, path |-> path, url |-> about_url]
Error(kind, path, about_url) == ErrorFrom(Exception(kind), path, about_url)
NoError == Error("return", <<>>, "")

\* The handlers that close _save_json_content (lines 53-57), download_video_content
\* (208-213) and save_parsed_thread_data (310-315).
downloader_handlers(e) ==
    reraise_or_wrap(e, {"ValidationError", "VideoDownloadError"}, "VideoDownloadError")

\* Mutant of ensure_dir_exists: the os.path.exists test is missing, and makedirs
\* fails on a directory that exists.
ensure_dir_exists_not_idempotent(dir_path, ds, mkdir_ok) ==
    IF dir_path \notin ds /\ mkdir_ok
    THEN [error |-> NoError, dirs |-> ds \cup Prefixes(dir_path)]
    ELSE [error |-> ErrorFrom(wrap(Exception("OSError"), "VideoDownloadError"), dir_path, ""),
          dirs |-> ds]

\* _ensure_dir_exists (lines 24-35).  mkdir_ok: whether os.makedirs succeeds; a
\* failed makedirs is taken to create nothing, and its OSError is wrapped.
ensure_dir_exists(dir_path, ds, mkdir_ok) ==
    IF dir_path \in ds THEN [error |-> NoError, dirs |-> ds]
    ELSE IF mkdir_ok THEN [error |-> NoError, dirs |-> ds \cup Prefixes(dir_path)]
    ELSE [error |-> ErrorFrom(wrap(Exception("OSError"), "VideoDownloadError"), dir_path, ""),
          dirs |-> ds]

\* What open() and json.dump() do: "ok"; "open_failed", the file is untouched
\* (OSError); "dump_failed", the file was opened for writing, so truncated, then
\* the dump raised (TypeError: a value json cannot serialise).
WriteOutcomes == {"ok", "open_failed", "dump_failed"}
write_error(write) == Exception(IF write = "open_failed" THEN "OSError" ELSE "TypeError")

\* _save_json_content (lines 37-57).
save_json_content(data, file_path, ds, fs, mkdir_ok, write) ==
    IF ~Truthy(data) \/ file_path = <<>>
    THEN [error |-> ErrorFrom(downloader_handlers(Exception("ValidationError")), <<>>, ""),
          dirs |-> ds, files |-> fs]
    ELSE LET d == ensure_dir_exists(dirname(file_path), ds, mkdir_ok)
         IN  IF d.error # NoError
             THEN [error |-> ErrorFrom(downloader_handlers(d.error), d.error.path, ""),
                   dirs |-> ds, files |-> fs]
             ELSE IF write = "ok"
             THEN [error |-> NoError, dirs |-> d.dirs,
                   files |-> (file_path :> JsonFile(data)) @@ fs]
             ELSE [error |-> ErrorFrom(downloader_handlers(write_error(write)), file_path, ""),
                   dirs |-> d.dirs,
                   files |-> IF write = "dump_failed"
                             THEN (file_path :> TruncatedFile) @@ fs ELSE fs]

\* What ydl.download does (ignoreerrors is set, so most failures do not raise):
\*   "ok"     a complete file is at the output path
\*   "raise"  the call raised
\*   "nofile" nothing was written, and the call returned
\*   "empty"  a file of size zero is at the output path
\*   "part"   the download was interrupted: a .part file is left beside it
EngineOutcomes == {"ok", "raise", "nofile", "empty", "part"}

\* Mutant of download_video_content: the size test of line 195 is missing.
file_downloaded_exists_only(fs, output_path) == output_path \in DOMAIN fs

\* Line 195: os.path.exists(output_path) and os.path.getsize(output_path) > 0.
file_downloaded(fs, output_path) == output_path \in DOMAIN fs /\ fs[output_path].size > 0

\* download_video_content (lines 126-213), list_formats False.  `invoked`: whether
\* ydl.download was called.
download_video_content(video_url, video_id, output_dir, ds, fs, mkdir_ok, outcome) ==
    IF video_url \in {None, ""} \/ video_id \in {None, ""} \/ output_dir = <<>>
    THEN [error |-> ErrorFrom(downloader_handlers(Exception("ValidationError")), <<>>, ""),
          value |-> <<>>, dirs |-> ds, files |-> fs, invoked |-> FALSE]
    ELSE LET d == ensure_dir_exists(output_dir, ds, mkdir_ok)
             output_path == output_dir \o <<video_id, ".mp4">>
             part_file == output_path \o <<".part">>
             after == CASE outcome = "ok"    -> (output_path :> VideoFile(video_url, 1)) @@ fs
                        [] outcome = "empty" -> (output_path :> VideoFile(video_url, 0)) @@ fs
                        [] outcome = "part"  -> (part_file :> PartFile(video_url)) @@ fs
                        [] OTHER             -> fs
         IN  IF d.error # NoError
             THEN [error |-> ErrorFrom(downloader_handlers(d.error), d.error.path, ""),
                   value |-> <<>>, dirs |-> ds, files |-> fs, invoked |-> FALSE]
             ELSE IF outcome = "raise"     \* lines 192-193, then the handler of line 208
             THEN [error |-> ErrorFrom(downloader_handlers(
                                 wrap(Exception("DownloadError"), "VideoDownloadError")),
                                       <<>>, video_url),
                   value |-> <<>>, dirs |-> d.dirs, files |-> fs, invoked |-> TRUE]
             ELSE IF file_downloaded(after, output_path)
             THEN [error |-> NoError, value |-> output_path,
                   dirs |-> d.dirs, files |-> after, invoked |-> TRUE]
             ELSE [error |-> ErrorFrom(downloader_handlers(Exception("VideoDownloadError")),
                                   IF part_file \in DOMAIN after THEN part_file ELSE output_path,
                                   ""),
                   value |-> <<>>, dirs |-> d.dirs, files |-> after, invoked |-> TRUE]

(***************************************************************************)
(* The threads save_parsed_thread_data is called on.                       *)
(***************************************************************************)
DEFAULT_OUTPUT_DIR == "output"
ReplyIds == <<"r1", "r2", "r3", "r4">>
VideoUrls == <<"v1", "v2", "v3", "v4">>
RootVideoUrl == "v0"

SomeText == PyDict([full_text |-> PyStr("hello")])
TextValues == {PyNone, SomeText}

\* The replies at position i: one without a reply_id key, one with an empty
\* reply_id (each with a text and a video, which the code must not save), and
\* those with the position's id, with or without a text, with or without a video.
RepliesAt(i) ==
    LET video == [video_url |-> VideoUrls[i], tweet_id |-> ReplyIds[i]]
    IN  {[reply_text_content |-> SomeText, reply_videos |-> <<video>>],
         [reply_id |-> "", reply_text_content |-> SomeText, reply_videos |-> <<video>>]}
        \cup {[reply_id |-> ReplyIds[i], reply_text_content |-> t, reply_videos |-> v] :
                 t \in TextValues, v \in {<<>>, <<video>>}}

ReplyLists == UNION {{r \in [1..n -> UNION {RepliesAt(i) : i \in 1..n}] :
                         \A i \in 1..n : r[i] \in RepliesAt(i)} : n \in 0..MaxReplies}

Threads ==
    {PyDict([user_screen_name |-> "alice", thread_id |-> "t1",
             thread_text_content |-> t, thread_videos |-> v, replies |-> r]) :
        t \in TextValues,
        v \in {<<>>, <<[video_url |-> RootVideoUrl, tweet_id |-> "t1"]>>},
        r \in ReplyLists}

\* Arguments that are no thread record.
NoThreads == {PyNone, PyDict(EmptyDict), PyList(<<PyInt(1)>>)}

\* Thread records with an entry in `replies` that is no dict.
BrokenThreads ==
    {PyDict([user_screen_name |-> "alice", thread_id |-> "t1",
             thread_text_content |-> SomeText,
             thread_videos |-> <<[video_url |-> RootVideoUrl, tweet_id |-> "t1"]>>,
             replies |-> r]) :
        r \in {<<PyInt(1)>>,
               <<[reply_id |-> ReplyIds[1], reply_text_content |-> SomeText,
                  reply_videos |-> <<>>], PyNone>>}}

\* The texts of an item: none (the key is missing, written Absent), None, an
\* empty dict, an empty string, or a text.
Absent == [py |-> "absent"]
EmptyTexts == {Absent, PyNone, PyDict(EmptyDict), PyStr("")}
WithText(key, text) == IF text = Absent THEN EmptyDict ELSE key :> text

\* Thread records of at most MaxTextItems items, each with an id and a video,
\* and a text of any of these shapes.
TextThreads ==
    UNION {{PyDict(WithText("thread_text_content", text[1]) @@
                   [user_screen_name |-> "alice", thread_id |-> "t1",
                    thread_videos |-> <<[video_url |-> RootVideoUrl, tweet_id |-> "t1"]>>,
                    replies |-> [i \in 1..n |->
                                   WithText("reply_text_content", text[i + 1]) @@
                                   [reply_id |-> ReplyIds[i],
                                    reply_videos |-> <<[video_url |-> VideoUrls[i],
                                                        tweet_id |-> ReplyIds[i]]>>]]]) :
              text \in [1..(n + 1) -> EmptyTexts \cup {SomeText}]} :
           n \in 0..(MaxTextItems - 1)}

\* Thread records of at most MaxUrlItems items, each with an id and a text, and
\* no video entry, an entry without a video_url, one with an empty video_url,
\* or one with a URL.
UrlThreads ==
    LET videos(id, u) == {<<>>, <<[tweet_id |-> id]>>, <<[video_url |-> "", tweet_id |-> id]>>,
                          <<[video_url |-> u, tweet_id |-> id]>>}
        items(n) == {v \in [0..n -> UNION {videos("t1", RootVideoUrl)}
                                      \cup UNION {videos(ReplyIds[i], VideoUrls[i]) : i \in 1..n}] :
                        /\ v[0] \in videos("t1", RootVideoUrl)
                        /\ \A i \in 1..n : v[i] \in videos(ReplyIds[i], VideoUrls[i])}
    IN  UNION {{PyDict([user_screen_name |-> "alice", thread_id |-> "t1",
                        thread_text_content |-> SomeText, thread_videos |-> v[0],
                        replies |-> [i \in 1..n |->
                                       [reply_id |-> ReplyIds[i],
                                        reply_text_content |-> SomeText,
                                        reply_videos |-> v[i]]]]) : v \in items(n)} :
               n \in 0..(MaxUrlItems - 1)}

\* The lists of at most MaxVideos entries drawn from S.
VideoLists(S) == UNION {[1..n -> S] : n \in 0..MaxVideos}

\* Thread records whose items carry any number of videos: the root's entries
\* differ in their URL; a reply's entry names the reply in tweet_id, names
\* another tweet, or has no tweet_id.
VideoThreads ==
    LET root_video == {[video_url |-> u, tweet_id |-> "t1"] : u \in {RootVideoUrl, "v0b"}}
        reply_video == {[video_url |-> VideoUrls[1], tweet_id |-> ReplyIds[1]],
                        [video_url |-> "v1b", tweet_id |-> ReplyIds[1]],
                        [video_url |-> VideoUrls[1], tweet_id |-> "q9"],
                        [video_url |-> VideoUrls[1]]}
        reply == {[reply_id |-> ReplyIds[1], reply_text_content |-> SomeText,
                   reply_videos |-> v] : v \in VideoLists(reply_video)}
    IN  {PyDict([user_screen_name |-> "alice", thread_id |-> "t1",
                 thread_text_content |-> SomeText, thread_videos |-> v, replies |-> r]) :
            v \in VideoLists(root_video), r \in {<<>>} \cup {<<x>> : x \in reply}}

(***************************************************************************)
(* The save machine: one run of save_parsed_thread_data, one sub-operation *)
(* a step.  The environment decides whether a makedirs or a file write     *)
(* succeeds and what the download engine does; `failed` keeps what it made *)
(* fail.                                                                   *)
(***************************************************************************)
pd == parsed_data.val
user_screen_name == Get(pd, "user_screen_name", "unknown_user")
thread_id == Get(pd, "thread_id", "unknown_thread")
thread_path == <<DEFAULT_OUTPUT_DIR, user_screen_name, thread_id>>
thread_videos == Get(pd, "thread_videos", <<>>)
replies == Get(pd, "replies", <<>>)
\* Mutant of reply_info: the replies are taken last first.
reply_info_reversed == replies[Len(replies) + 1 - reply_i]
reply_info == replies[reply_i]
reply_id == Get(reply_info, "reply_id", None)
current_reply_path == thread_path \o <<"replies", reply_id>>
reply_videos == Get(reply_info, "reply_videos", <<>>)

\* A logger.error or logger.warning record: the call site and what the message names.
LogRecord(level, site, path, about_url, info) ==
    [level |-> level, site |-> site, path |-> path, url |-> about_url, info |-> info]
ErrorRecord(site, error) ==
    LogRecord("error", site, error.path, error.url, [kind |-> error.kind, cause |-> error.cause])

Failure(item, op, how) == [item |-> item, op |-> op, how |-> how]

\* The exception leaves save_parsed_thread_data (lines 310-315).
SaveRaises(error) ==
    /\ save_pc' = "raised"
    /\ save_result' = [kind |-> downloader_handlers(error).kind,
                       cause |-> downloader_handlers(error).cause]

\* A first run begins, over an empty output directory.
SaveBegins ==
    /\ save_pc = "start" /\ reply_i = 0 /\ video_i = 0
    /\ dirs = {} /\ files = NoFiles /\ saved_files = <<>> /\ log = <<>>
    /\ engine = <<>> /\ failed = <<>> /\ save_result = [kind |-> "none"]
    /\ run = 1 /\ first = NoFirst
    /\ SelIdle /\ FetchIdle

SaveInit ==
    /\ parsed_data \in Threads \cup NoThreads
    /\ SaveBegins

\* Lines 236-248: the argument is checked and the thread directory created.
SaveStart ==
    /\ save_pc = "start"
    /\ IF ~Truthy(parsed_data) \/ parsed_data.py # "dict"
       THEN /\ SaveRaises(Exception("ValidationError"))
            /\ UNCHANGED <<dirs, failed>>
       ELSE \E mkdir_ok \in BOOLEAN :
               LET d == ensure_dir_exists(thread_path, dirs, mkdir_ok)
               IN  /\ dirs' = d.dirs
                   /\ IF d.error = NoError
                      THEN save_pc' = "root_text" /\ UNCHANGED <<save_result, failed>>
                      ELSE /\ SaveRaises(d.error)
                           /\ failed' = Append(failed, Failure(0, "dir", "mkdir"))
    /\ UNCHANGED <<parsed_data, reply_i, video_i, files, saved_files, log, engine,
                   sel_vars, fetch_vars, run_vars>>

\* Lines 250-255: the thread text, when there is one.  No try encloses the
\* write: its exception leaves the function.
SaveRootText ==
    /\ save_pc = "root_text"
    /\ LET thread_text_content == Get(pd, "thread_text_content", PyNone)
           thread_text_path == thread_path \o <<"thread_text", ".json">>
       IN  IF Truthy(thread_text_content)
           THEN \E write \in WriteOutcomes :
                   LET r == save_json_content(thread_text_content, thread_text_path,
                                              dirs, files, TRUE, write)
                   IN  /\ files' = r.files
                       /\ IF r.error = NoError
                          THEN /\ saved_files' = Append(saved_files, thread_text_path)
                               /\ save_pc' = "root_video" /\ video_i' = 1
                               /\ UNCHANGED <<save_result, failed>>
                          ELSE /\ SaveRaises(r.error)
                               /\ failed' = Append(failed, Failure(0, "text", write))
                               /\ UNCHANGED <<saved_files, video_i>>
           ELSE /\ save_pc' = "root_video" /\ video_i' = 1
                /\ UNCHANGED <<files, saved_files, save_result, failed>>
    /\ UNCHANGED <<parsed_data, reply_i, dirs, log, engine, sel_vars, fetch_vars, run_vars>>

\* Whether a reply or video entry is a dict: the model's dicts are functions
\* from their keys, any other Python value carries its tag under "py".
is_dict(x) == "py" \notin DOMAIN x

\* Mutant of missing_id: only an absent id is skipped, an empty one is not.
missing_id_none_only(id) == id = None

\* Line 275: `not reply_id`.
missing_id(id) == id \in {None, ""}

\* Mutant of except_VideoDownloadError: the except clause is missing.
except_nothing(error) == FALSE

\* Lines 267, 290, 303: `except VideoDownloadError`, whether the clause catches.
except_VideoDownloadError(error) == error.kind = "VideoDownloadError"

\* Mutant of url_and_id: the guard is missing.
url_and_id_unchecked(video_url, video_id_for_filename) == TRUE

\* Lines 263 and 299: `if video_url and video_id_for_filename`.
url_and_id(video_url, video_id_for_filename) ==
    video_url \notin {None, ""} /\ video_id_for_filename \notin {None, ""}

\* One download_video_content call of the loops of lines 259-269 and 295-305,
\* behind `if video_url and video_id_for_filename`: the path is appended, or a
\* VideoDownloadError is logged and the loop goes on; a ValidationError is not
\* caught there and leaves the function.
DownloadStep(item, site, video_url, video_id, videos_path) ==
    \E mkdir_ok \in BOOLEAN, outcome \in EngineOutcomes :
       LET r == download_video_content(video_url, video_id, videos_path, dirs, files,
                                       mkdir_ok, outcome)
       IN  /\ dirs' = r.dirs /\ files' = r.files
           /\ engine' = IF r.invoked
                        THEN Append(engine, [item |-> item, url |-> video_url,
                                             outtmpl |-> videos_path \o <<video_id, ".mp4">>,
                                             outcome |-> outcome])
                        ELSE engine
           /\ failed' = IF r.invoked /\ outcome # "ok"
                        THEN Append(failed, Failure(item, "video", outcome))
                        ELSE IF ~r.invoked /\ r.error # NoError
                        THEN Append(failed, Failure(item, "video", "mkdir"))
                        ELSE failed
           /\ IF r.error = NoError
              THEN /\ saved_files' = Append(saved_files, r.value)
                   /\ video_i' = video_i + 1
                   /\ UNCHANGED <<log, save_pc, save_result>>
              ELSE IF except_VideoDownloadError(r.error)
              THEN /\ log' = Append(log, ErrorRecord(site, r.error))
                   /\ video_i' = video_i + 1
                   /\ UNCHANGED <<saved_files, save_pc, save_result>>
              ELSE /\ SaveRaises(r.error)
                   /\ UNCHANGED <<saved_files, log, video_i>>

\* Lines 257-269: the thread's videos, one a step; past the last, the replies.
SaveRootVideo ==
    /\ save_pc = "root_video"
    /\ IF video_i > Len(thread_videos)
       THEN /\ save_pc' = "reply_start" /\ reply_i' = 1 /\ video_i' = 0
            /\ UNCHANGED <<dirs, files, saved_files, log, engine, failed, save_result>>
       ELSE LET video_url == Get(thread_videos[video_i], "video_url", None)
                video_id_for_filename == thread_id
            IN  /\ UNCHANGED reply_i
                /\ IF url_and_id(video_url, video_id_for_filename)
                   THEN DownloadStep(0, "thread_video", video_url, video_id_for_filename,
                                     thread_path \o <<"videos">>)
                   ELSE /\ video_i' = video_i + 1
                        /\ UNCHANGED <<dirs, files, saved_files, log, engine, failed,
                                       save_pc, save_result>>
    /\ UNCHANGED <<parsed_data, sel_vars, fetch_vars, run_vars>>

\* Lines 273-281: the next reply.  One without an id is skipped with a warning;
\* else its directory is created, and no try encloses that: its exception
\* leaves the function.  Past the last reply the function returns.
SaveReplyStart ==
    /\ save_pc = "reply_start"
    /\ IF reply_i > Len(replies)
       THEN /\ save_pc' = "return"
            /\ UNCHANGED <<reply_i, dirs, log, failed, save_result>>
       ELSE IF ~is_dict(reply_info)     \* reply_info.get raises AttributeError
       THEN /\ SaveRaises(Exception("AttributeError"))
            /\ UNCHANGED <<reply_i, dirs, log, failed>>
       ELSE IF missing_id(reply_id)
       THEN /\ log' = Append(log, LogRecord("warning", "skip_reply", <<>>, "",
                                            PyDict(reply_info)))
            /\ reply_i' = reply_i + 1
            /\ UNCHANGED <<save_pc, dirs, failed, save_result>>
       ELSE \E mkdir_ok \in BOOLEAN :
               LET d == ensure_dir_exists(current_reply_path, dirs, mkdir_ok)
               IN  /\ dirs' = d.dirs
                   /\ UNCHANGED <<reply_i, log>>
                   /\ IF d.error = NoError
                      THEN save_pc' = "reply_text" /\ UNCHANGED <<save_result, failed>>
                      ELSE /\ SaveRaises(d.error)
                           /\ failed' = Append(failed, Failure(reply_i, "dir", "mkdir"))
    /\ UNCHANGED <<parsed_data, video_i, files, saved_files, engine, sel_vars, fetch_vars, run_vars>>

\* Lines 283-291: the reply's text, when there is one; a VideoDownloadError of
\* the write is logged.
SaveReplyText ==
    /\ save_pc = "reply_text"
    /\ LET reply_text_content == Get(reply_info, "reply_text_content", PyNone)
           reply_text_path == current_reply_path \o <<"reply_text", ".json">>
       IN  IF Truthy(reply_text_content)
           THEN \E write \in WriteOutcomes :
                   LET r == save_json_content(reply_text_content, reply_text_path,
                                              dirs, files, TRUE, write)
                   IN  /\ files' = r.files
                       /\ IF r.error = NoError
                          THEN /\ saved_files' = Append(saved_files, reply_text_path)
                               /\ save_pc' = "reply_video" /\ video_i' = 1
                               /\ UNCHANGED <<log, failed, save_result>>
                          ELSE /\ failed' = Append(failed, Failure(reply_i, "text", write))
                               /\ UNCHANGED saved_files
                               /\ IF except_VideoDownloadError(r.error)
                                  THEN /\ log' = Append(log, ErrorRecord("reply_text", r.error))
                                       /\ save_pc' = "reply_video" /\ video_i' = 1
                                       /\ UNCHANGED save_result
                                  ELSE /\ SaveRaises(r.error)
                                       /\ UNCHANGED <<log, video_i>>
           ELSE /\ save_pc' = "reply_video" /\ video_i' = 1
                /\ UNCHANGED <<files, saved_files, log, failed, save_result>>
    /\ UNCHANGED <<parsed_data, reply_i, dirs, engine, sel_vars, fetch_vars, run_vars>>

\* Lines 293-305: the reply's videos, one a step; past the last, the next reply.
SaveReplyVideo ==
    /\ save_pc = "reply_video"
    /\ IF video_i > Len(reply_videos)
       THEN /\ save_pc' = "reply_start" /\ reply_i' = reply_i + 1 /\ video_i' = 0
            /\ UNCHANGED <<dirs, files, saved_files, log, engine, failed, save_result>>
       ELSE LET video_url == Get(reply_videos[video_i], "video_url", None)
                video_id_for_filename == Get(reply_videos[video_i], "tweet_id", reply_id)
            IN  /\ UNCHANGED reply_i
                /\ IF url_and_id(video_url, video_id_for_filename)
                   THEN DownloadStep(reply_i, "reply_video", video_url, video_id_for_filename,
                                     current_reply_path \o <<"videos">>)
                   ELSE /\ video_i' = video_i + 1
                        /\ UNCHANGED <<dirs, files, saved_files, log, engine, failed,
                                       save_pc, save_result>>
    /\ UNCHANGED <<parsed_data, sel_vars, fetch_vars, run_vars>>

\* Lines 307-308: saved_files is returned.
SaveReturn ==
    /\ save_pc = "return"
    /\ save_pc' = "returned"
    /\ save_result' = [kind |-> "return"]
    /\ UNCHANGED <<parsed_data, reply_i, video_i, dirs, files, saved_files, log, engine,
                   failed, sel_vars, fetch_vars, run_vars>>

SaveNext ==
    \/ SaveStart
    \/ SaveRootText
    \/ SaveRootVideo
    \/ SaveReplyStart
    \/ SaveReplyText
    \/ SaveReplyVideo
    \/ SaveReturn

SpecSave == SaveInit /\ [][SaveNext]_vars

\* The run on a thread whose items carry any number of videos.
VideosInit ==
    /\ parsed_data \in VideoThreads
    /\ SaveBegins

SpecVideos == VideosInit /\ [][SaveNext]_vars

\* The run on a thread whose video entries may lack a URL.
UrlInit ==
    /\ parsed_data \in UrlThreads
    /\ SaveBegins

SpecUrls == UrlInit /\ [][SaveNext]_vars

\* The run on a thread whose texts are of any shape.
TextInit ==
    /\ parsed_data \in TextThreads
    /\ SaveBegins

SpecText == TextInit /\ [][SaveNext]_vars

(***************************************************************************)
(* A second run: save_parsed_thread_data is called again with the same     *)
(* record once the first call has ended, over the directory it left.       *)
(***************************************************************************)
\* The threads saved twice: the root carries a text and a video or neither, and
\* every reply has an id, a text and a video; at most MaxRerunItems items of the
\* thread carry a text and a video.
RerunThreads ==
    {PyDict([user_screen_name |-> "alice", thread_id |-> "t1",
             thread_text_content |-> IF full THEN SomeText ELSE PyNone,
             thread_videos |-> IF full THEN <<[video_url |-> RootVideoUrl, tweet_id |-> "t1"]>>
                               ELSE <<>>,
             replies |-> [i \in 1..n |->
                            [reply_id |-> ReplyIds[i], reply_text_content |-> SomeText,
                             reply_videos |-> <<[video_url |-> VideoUrls[i],
                                                 tweet_id |-> ReplyIds[i]]>>]]]) :
        full \in BOOLEAN, n \in 0..(MaxRerunItems - 1)}
    \cup
    {PyDict([user_screen_name |-> "alice", thread_id |-> "t1",
             thread_text_content |-> PyNone, thread_videos |-> <<>>,
             replies |-> [i \in 1..MaxRerunItems |->
                            [reply_id |-> ReplyIds[i], reply_text_content |-> SomeText,
                             reply_videos |-> <<[video_url |-> VideoUrls[i],
                                                 tweet_id |-> ReplyIds[i]]>>]]])}

RerunInit ==
    /\ parsed_data \in RerunThreads
    /\ SaveBegins

\* The caller calls save_parsed_thread_data again: the locals are new, the
\* directories and files are those the first run left.
SaveAgain ==
    /\ save_pc \in {"returned", "raised"} /\ run = 1
    /\ run' = 2
    /\ first' = [pc |-> save_pc, saved_files |-> saved_files, failed |-> failed,
                 written |-> DOMAIN files]
    /\ save_pc' = "start" /\ reply_i' = 0 /\ video_i' = 0
    /\ saved_files' = <<>> /\ log' = <<>> /\ engine' = <<>> /\ failed' = <<>>
    /\ save_result' = [kind |-> "none"]
    /\ UNCHANGED <<parsed_data, dirs, files, sel_vars, fetch_vars>>

RerunNext == SaveNext \/ SaveAgain

SpecRerun == RerunInit /\ [][RerunNext]_vars

(***************************************************************************)
(* The selection machine: a caller holds one record and calls              *)
(* extract_video_url on it, twice at most; the second call sees the record *)
(* as the first one left it.                                               *)
(***************************************************************************)
SelInit ==
    /\ IsTweetRecord(tweet_data_in)
    /\ tweet_data = tweet_data_in
    /\ returned = <<>>
    /\ FetchIdle /\ SaveIdle

ExtractVideoUrl ==
    /\ Len(returned) < MaxCalls
    /\ LET r == extract_video_url(tweet_data)
       IN  /\ returned' = Append(returned, [kind |-> r.kind, value |-> r.value, cause |-> r.cause])
           /\ tweet_data' = r.data
    /\ UNCHANGED <<tweet_data_in, fetch_vars, save_vars>>

SelNext == ExtractVideoUrl

SpecSelect == SelInit /\ [][SelNext]_vars

\* The calls on a record that may carry both shapes.
TwoShapeInit ==
    /\ IsTwoShapeRecord(tweet_data_in)
    /\ tweet_data = tweet_data_in
    /\ returned = <<>>
    /\ FetchIdle /\ SaveIdle

SpecTwoShapes == TwoShapeInit /\ [][SelNext]_vars

(***************************************************************************)
(* Any public operation: the caller invokes extract_video_url, one of the  *)
(* fetch operations, or save_parsed_thread_data (and download_video_content*)
(* through it), on any of their arguments.                                 *)
(***************************************************************************)
AllInit ==
    \/ SelInit
    \/ FetchInit
    \/ parsed_data \in Threads \cup NoThreads \cup BrokenThreads /\ SaveBegins

AllNext ==
    \/ FetchIdle /\ SaveIdle /\ SelNext
    \/ FetchNext
    \/ SaveNext

SpecAll == AllInit /\ [][AllNext]_vars

(***************************************************************************)
(* Properties of extract_video_url.                                        *)
(***************************************************************************)
\* A well-formed record that carries exactly one variant list.
IsPrimary(td) ==
    /\ td.py = "dict" /\ DOMAIN td.val = {"id", "video"}
    /\ td.val["video"].py = "dict" /\ "variants" \in DOMAIN td.val["video"].val
    /\ td.val["video"].val["variants"].py = "list"
IsMedia(td) ==
    /\ td.py = "dict" /\ DOMAIN td.val = {"id", "mediaDetails"}
    /\ td.val["mediaDetails"].py = "list" /\ Len(td.val["mediaDetails"].val) = 1
    /\ "video_info" \in DOMAIN td.val["mediaDetails"].val[1]
    /\ td.val["mediaDetails"].val[1]["video_info"]["variants"].py = "list"
HasOneList(td) == IsPrimary(td) \/ IsMedia(td)

\* Its variant list, the same list replaced, and the keys of its shape.
ListOf(td) ==
    IF IsPrimary(td) THEN td.val["video"].val["variants"].val
    ELSE td.val["mediaDetails"].val[1]["video_info"]["variants"].val
WithList(td, l) ==
    IF IsPrimary(td) THEN PrimaryRecord(PyList(l))
    ELSE MediaRecord(PyList(<<VideoMedia(PyList(l))>>))
TypeOf(td, v) == IF IsPrimary(td) THEN Get(v, "type", None) ELSE Get(v, "content_type", None)
UrlOf(td, v) == IF IsPrimary(td) THEN Get(v, "src", None) ELSE Get(v, "url", None)

\* The bitrate a variant is ranked by: its bitrate, 0 when it has none.
Rank(v) == IF "bitrate" \in DOMAIN v THEN v["bitrate"] ELSE 0

Mp4Positions(td) == {i \in 1..Len(ListOf(td)) : TypeOf(td, ListOf(td)[i]) = MP4}
\* The positions the selection is made among: the mp4 entries, or all if none is.
Partition(td) == IF Mp4Positions(td) # {} THEN Mp4Positions(td) ELSE 1..Len(ListOf(td))
\* Those of top rank among positions P.
Top(td, P) == {i \in P : \A j \in P : Rank(ListOf(td)[i]) >= Rank(ListOf(td)[j])}
First(P) == CHOOSE i \in P : \A j \in P : i <= j

Permuted(l, p) == [i \in 1..Len(l) |-> l[p[i]]]
Called == returned # <<>>
\* The first call has returned and no other was made: what it returned and the
\* record it was given do not change afterwards.
FirstCalled == Len(returned) = 1
ReturnedValue(v) == [kind |-> "return", value |-> v, cause |-> ""]

\* C3 as stated: when the list holds a video/mp4 entry, the first call returns the
\* URL of the top-bitrate mp4 entry, and every permutation of the list gives the
\* same result.
C3_PermutationInvariant ==
    (FirstCalled /\ HasOneList(tweet_data_in) /\ Mp4Positions(tweet_data_in) # {}) =>
        /\ returned[1].kind = "return"
        /\ returned[1].value \in
              {UrlOf(tweet_data_in, ListOf(tweet_data_in)[i]) :
                  i \in Top(tweet_data_in, Mp4Positions(tweet_data_in))}
        /\ \A p \in Permutations(1..Len(ListOf(tweet_data_in))) :
              extract_video_url(WithList(tweet_data_in, Permuted(ListOf(tweet_data_in), p))).value
                  = returned[1].value

\* C3 amended: when the list holds a video/mp4 entry, the first call returns the
\* URL of a top-bitrate mp4 entry (a non-mp4 entry never wins), and every
\* permutation of the list gives the same result provided the top-bitrate mp4
\* entries all carry one URL.
C3_TopMp4Returned ==
    (FirstCalled /\ HasOneList(tweet_data_in) /\ Mp4Positions(tweet_data_in) # {}) =>
        LET td == tweet_data_in
            TopUrls == {UrlOf(td, ListOf(td)[i]) : i \in Top(td, Mp4Positions(td))}
        IN  /\ returned[1].kind = "return"
            /\ returned[1].value \in TopUrls
            /\ Cardinality(TopUrls) = 1 =>
                  \A p \in Permutations(1..Len(ListOf(td))) :
                      extract_video_url(WithList(td, Permuted(ListOf(td), p))).value
                          = returned[1].value

\* C3 witness: an mp4 entry was returned although a non-mp4 entry with a higher
\* bitrate stands before it, and another mp4 entry with a lower bitrate too.
C3_Witness ==
    /\ Called /\ HasOneList(tweet_data_in) /\ Len(ListOf(tweet_data_in)) = 3
    /\ LET td == tweet_data_in
           l == ListOf(td)
       IN  /\ TypeOf(td, l[1]) # MP4 /\ Rank(l[1]) = 2
           /\ TypeOf(td, l[2]) = MP4 /\ Rank(l[2]) = 0 /\ UrlOf(td, l[2]) = "u1"
           /\ TypeOf(td, l[3]) = MP4 /\ Rank(l[3]) = 1 /\ UrlOf(td, l[3]) = "u2"
           /\ returned[1] = ReturnedValue("u2")

\* C4: when the list holds no video/mp4 entry but at least one entry, the first
\* call returns the URL of an entry of the highest bitrate in the list.
C4_TopOtherReturned ==
    (Called /\ HasOneList(tweet_data_in) /\ Mp4Positions(tweet_data_in) = {}
       /\ ListOf(tweet_data_in) # <<>>) =>
        LET td == tweet_data_in
        IN  /\ returned[1].kind = "return"
            /\ returned[1].value \in
                  {UrlOf(td, ListOf(td)[i]) : i \in Top(td, 1..Len(ListOf(td)))}

\* C4 witness: no mp4 entry, and the entry returned is not the first of the list.
C4_Witness ==
    /\ Called /\ HasOneList(tweet_data_in) /\ Mp4Positions(tweet_data_in) = {}
    /\ Len(ListOf(tweet_data_in)) = 2
    /\ LET td == tweet_data_in
           l == ListOf(td)
       IN  /\ Rank(l[1]) = 1 /\ UrlOf(td, l[1]) = "u1"
           /\ Rank(l[2]) = 2 /\ UrlOf(td, l[2]) = "u2"
           /\ returned[1] = ReturnedValue("u2")

\* C5 as stated: a well-formed record with no video or an empty variant list
\* gives the return value None and no failure, and a malformed input never gives
\* the return value None.
C5_NoneOnlyForNoVideo ==
    Called =>
        /\ tweet_data_in \in NoVideoRecords => returned[1] = ReturnedValue(None)
        /\ tweet_data_in \in MalformedRecords => returned[1] # ReturnedValue(None)

\* C6 as stated: a malformed input is answered by a failure raised to the caller,
\* never by a return value (None or a URL).  Any raised error counts here as the
\* explicit failure, whatever its class.
C6_MalformedRejected ==
    (Called /\ tweet_data_in \in MalformedRecords) =>
        returned[1].kind \in {"ValidationError", "ScrapingError"}

\* The list with every missing bitrate written out as bitrate 0.
WithExplicitZero(l) ==
    [i \in 1..Len(l) |-> IF "bitrate" \in DOMAIN l[i] THEN l[i] ELSE ("bitrate" :> 0) @@ l[i]]

\* C7: on a non-empty list the call returns the URL of the first entry, in list
\* order, among the top-ranked entries of its partition, a missing bitrate
\* ranking as 0: writing the missing bitrates out as 0 changes nothing, the
\* list the non-mp4 branch leaves sorted has its bitrates descending (missing and
\* 0 last), and a second call on the same list returns what the first did.
C7_TieBreakFirstEncountered ==
    (Called /\ HasOneList(tweet_data_in) /\ ListOf(tweet_data_in) # <<>>) =>
        LET td == tweet_data_in
            l == ListOf(td)
            after == ListOf(tweet_data)
        IN  /\ returned[1] = ReturnedValue(UrlOf(td, l[First(Top(td, Partition(td)))]))
            /\ FirstCalled =>
                  extract_video_url(WithList(td, WithExplicitZero(l))).value = returned[1].value
            /\ Mp4Positions(td) = {} =>
                  \A i, j \in 1..Len(after) : i < j => Rank(after[i]) >= Rank(after[j])
            /\ Len(returned) >= 2 => returned[2] = returned[1]

\* C7 witness: two calls were made on a list whose first entry has no bitrate
\* and whose second has bitrate 0 and another URL, both of one partition; the
\* first entry's URL was returned.
C7_Witness ==
    /\ Len(returned) = 2 /\ HasOneList(tweet_data_in) /\ Len(ListOf(tweet_data_in)) = 3
    /\ LET td == tweet_data_in
           l == ListOf(td)
       IN  /\ Mp4Positions(td) = {1, 2}
           /\ "bitrate" \notin DOMAIN l[1] /\ UrlOf(td, l[1]) = "u2"
           /\ "bitrate" \in DOMAIN l[2] /\ l[2]["bitrate"] = 0 /\ UrlOf(td, l[2]) = "u1"
           /\ Rank(l[3]) = 2
           /\ returned[1] = ReturnedValue("u2")

(***************************************************************************)
(* Properties of the fetch operations.                                     *)
(***************************************************************************)
FetchEnded == fetch_pc \in {"returned", "raised"}

\* C9 as stated: an operation that takes a reply limit and is given one of 0 or
\* less never reaches the backend, and ends by raising ValidationError.
C9_LimitCheckedBeforeBackend ==
    (operation \in {"fetch_tweet_replies", "fetch_tweet_and_replies"} /\ limit <= 0) =>
        /\ backend = <<>>
        /\ FetchEnded => fetched.kind = "ValidationError"

\* No post identifier can be extracted from the url by the pattern.
NoTweetId(u) == extract_tweet_id(u).kind = "ValidationError" \/ extract_tweet_id(u).value = None

\* C10 as stated: fetch_tweet and fetch_tweet_replies, given a url from which no
\* post identifier can be extracted, never reach the backend and end by raising
\* ValidationError.
C10_UrlCheckedBeforeBackend ==
    (operation \in {"fetch_tweet", "fetch_tweet_replies"} /\ NoTweetId(url)) =>
        /\ backend = <<>>
        /\ FetchEnded => fetched.kind = "ValidationError"

\* The backend has answered the dataset read of this actor with n items.
Answered(actor, n) ==
    \E i \in 1..Len(backend) :
        /\ backend[i].actor = actor /\ backend[i].call = "dataset"
        /\ backend[i].outcome = "ok" /\ backend[i].items = n

\* C11: when the backend answers the tweet's dataset read with no item, the
\* operation has raised the ScrapingError of line 102 (no tweet data found, no
\* underlying cause) and holds no record; when it answers the replies' dataset
\* read with no item, the operation has returned, with an empty reply list.
C11_EmptyDatasets ==
    /\ Answered("tweet", 0) =>
          /\ fetch_pc = "raised"
          /\ fetched.kind = "ScrapingError" /\ fetched.cause = ""
          /\ fetched.step = "tweet_empty"
          /\ fetched.tweet = 0 /\ fetched.replies = <<>>
    /\ Answered("replies", 0) =>
          /\ fetch_pc = "returned"
          /\ fetched.kind = "return" /\ fetched.replies = <<>>

\* C11 witness: fetch_tweet was answered an empty dataset and raised.
C11_Witness ==
    /\ operation = "fetch_tweet" /\ Answered("tweet", 0)
    /\ Len(backend) = 2 /\ fetch_pc = "raised" /\ fetched.kind = "ScrapingError"

\* fetch_tweet_replies was answered an empty dataset and returned [].
C11_RepliesReached ==
    /\ operation = "fetch_tweet_replies" /\ Answered("replies", 0)
    /\ fetch_pc = "returned" /\ fetched.replies = <<>>

(***************************************************************************)
(* Properties of save_parsed_thread_data.                                  *)
(***************************************************************************)
SaveEnded == save_pc \in {"returned", "raised"}
IsThread == parsed_data \in Threads

\* The layout: the directory of item i (0: the thread itself), and the text and
\* video files it should get.
ItemDir(i) ==
    IF i = 0 THEN <<"output", "alice", "t1">>
    ELSE <<"output", "alice", "t1", "replies", ReplyIds[i]>>
ItemText(i) == IF i = 0 THEN pd["thread_text_content"] ELSE replies[i]["reply_text_content"]
ItemVideos(i) == IF i = 0 THEN pd["thread_videos"] ELSE replies[i]["reply_videos"]
ItemId(i) == IF i = 0 THEN "t1" ELSE ReplyIds[i]
TextPath(i) == ItemDir(i) \o (IF i = 0 THEN <<"thread_text", ".json">> ELSE <<"reply_text", ".json">>)
VideoPath(i) == ItemDir(i) \o <<"videos", ItemId(i), ".mp4">>
ExpectedPaths(i) ==
    (IF Truthy(ItemText(i)) THEN {TextPath(i)} ELSE {})
    \cup (IF ItemVideos(i) # <<>> THEN {VideoPath(i)} ELSE {})

HasId(i) == "reply_id" \in DOMAIN replies[i] /\ replies[i]["reply_id"] # ""
IsPrefix(p, q) == Len(p) <= Len(q) /\ SubSeq(q, 1, Len(p)) = p
InSeq(x, seq) == \E n \in 1..Len(seq) : seq[n] = x

\* A log record names reply k: its path lies in reply k's directory, or its URL
\* is that of reply k's video.
Names(record, k) ==
    \/ IsPrefix(ItemDir(k), record.path)
    \/ ItemVideos(k) # <<>> /\ record.url = ItemVideos(k)[1]["video_url"]

\* C1: in a run on a thread whose replies all have an id, where the environment
\* made exactly one sub-operation fail and that is the video download of a
\* reply k: the run does not raise; once it has ended exactly one warning or
\* error record is logged, it is the download error and names reply k; and
\* saved_files holds the text and video paths of the root and of every reply
\* other than k.
C1_FailureIsolation ==
    (IsThread /\ Len(failed) = 1 /\ failed[1].op = "video" /\ failed[1].item >= 1
       /\ \A j \in 1..Len(replies) : HasId(j)) =>
        LET k == failed[1].item
        IN  /\ save_pc # "raised"
            /\ save_pc = "returned" =>
                  /\ Len(log) = 1
                  /\ log[1].level = "error" /\ log[1].site = "reply_video"
                  /\ Names(log[1], k)
                  /\ \A j \in (0..Len(replies)) \ {k} :
                        \A path \in ExpectedPaths(j) : InSeq(path, saved_files)
                  /\ ~InSeq(VideoPath(k), saved_files)

\* C1 witness: a run over two replies, each with a text and a video, has
\* returned; the download of the first reply's video failed and nothing else.
C1_Witness ==
    /\ IsThread /\ save_pc = "returned" /\ Len(replies) = 2
    /\ failed = <<Failure(1, "video", "nofile")>>
    /\ \A j \in 0..2 : Truthy(ItemText(j)) /\ ItemVideos(j) # <<>>
    /\ HasId(1) /\ HasId(2)
    /\ InSeq(VideoPath(2), saved_files) /\ InSeq(TextPath(1), saved_files)

\* C2 as stated: a run on a thread record never raises, whichever sub-operations
\* fail.
C2_NeverRaises == IsThread => save_pc # "raised"

\* Nothing on disk, in saved_files or among the engine's invocations belongs to
\* the reply at position j.
NoTraceOf(j) ==
    LET mine(path) == InSeq(ReplyIds[j], path) \/ InSeq(None, path)
                         \/ (Len(path) > 4 /\ path[4] = "replies" /\ path[5] = "")
    IN  /\ \A d \in dirs : ~mine(d)
        /\ \A f \in DOMAIN files : ~mine(f)
        /\ \A n \in 1..Len(saved_files) : ~mine(saved_files[n])
        /\ \A n \in 1..Len(engine) : engine[n].item # j /\ engine[n].url # VideoUrls[j]

\* The step that takes up a reply without an id.
SkipStep ==
    /\ save_pc = "reply_start" /\ reply_i <= Len(replies) /\ ~HasId(reply_i)

\* C8: a reply whose id is empty or missing leaves no directory, no file, no
\* saved path and no engine invocation, and exactly one warning record is
\* logged for it; the step that skips it changes nothing on disk and hands over
\* to the next reply (the run goes on at the next position, it does not end).
C8_SkipReplyWithoutId ==
    /\ [](IsThread =>
            \A j \in 1..Len(replies) :
               (~HasId(j) /\ (j < reply_i \/ SaveEnded)) =>
                  /\ NoTraceOf(j)
                  /\ (j < reply_i) =>
                        Cardinality({n \in 1..Len(log) :
                            log[n] = LogRecord("warning", "skip_reply", <<>>, "",
                                               PyDict(replies[j]))}) = 1)
    /\ [][SkipStep =>
            /\ save_pc' = "reply_start" /\ reply_i' = reply_i + 1
            /\ dirs' = dirs /\ files' = files /\ saved_files' = saved_files
            /\ Len(log') = Len(log) + 1]_vars

\* C8 witness: the first reply had no id and was skipped with a warning, and the
\* second reply's text and video were saved behind it.
C8_Witness ==
    /\ IsThread /\ save_pc = "returned" /\ Len(replies) = 2
    /\ ~HasId(1) /\ HasId(2)
    /\ log = <<LogRecord("warning", "skip_reply", <<>>, "", PyDict(replies[1]))>>
    /\ InSeq(TextPath(2), saved_files) /\ InSeq(VideoPath(2), saved_files)

(***************************************************************************)
(* Properties of a second run.                                             *)
(***************************************************************************)
\* The directory a failed sub-operation was to create.
FailedDir(f) == IF f.op = "dir" THEN ItemDir(f.item) ELSE ItemDir(f.item) \o <<"videos">>
\* Which sub-operations failed, whatever made them fail.
Pattern(f) == [n \in 1..Len(f) |-> <<f[n].item, f[n].op>>]
IsTextPath(path) == path[Len(path)] = ".json"
ItemOfPath(path) == IF Len(path) > 4 /\ path[4] = "replies"
                    THEN CHOOSE i \in 1..Len(replies) : ReplyIds[i] = path[5] ELSE 0

\* C13: in a second run over the directory the first run left,
\*  - no directory creation fails on a directory that exists;
\*  - every engine invocation is given the item's one video path, and every
\*    saved path is the item's text or video path, as in the first run;
\*  - a file the second run has written (a saved text, a download the engine
\*    completed) holds the second run's content, the only file at its path;
\*  - when both runs have returned and the same sub-operations failed, the two
\*    saved_files lists are equal, and when they failed the same way no file
\*    was added to those the first run left.
C13_RerunOverwrites ==
    run = 2 =>
        /\ \A n \in 1..Len(failed) :
              failed[n].how = "mkdir" => FailedDir(failed[n]) \notin dirs
        /\ \A n \in 1..Len(engine) :
              /\ engine[n].outtmpl = VideoPath(engine[n].item)
              /\ engine[n].outcome = "ok" =>
                    /\ engine[n].outtmpl \in DOMAIN files
                    /\ files[engine[n].outtmpl] = VideoFile(engine[n].url, 1)
        /\ \A n \in 1..Len(saved_files) :
              LET path == saved_files[n]
              IN  /\ path \in DOMAIN files
                  /\ path \in ExpectedPaths(ItemOfPath(path))
                  /\ IsTextPath(path) => files[path] = JsonFile(ItemText(ItemOfPath(path)))
        /\ first.written \subseteq DOMAIN files
        /\ (save_pc = "returned" /\ first.pc = "returned") =>
              /\ Pattern(failed) = Pattern(first.failed) => saved_files = first.saved_files
              /\ failed = first.failed => DOMAIN files = first.written

\* C13 witness: both runs returned without a failure; the second created no
\* directory, and the text and the video it saved are its own.
C13_Witness ==
    /\ run = 2 /\ save_pc = "returned" /\ first.pc = "returned"
    /\ failed = <<>> /\ first.failed = <<>>
    /\ Len(saved_files) = 2 /\ saved_files = first.saved_files
    /\ \A n \in 1..2 : files[saved_files[n]].run = 2
    /\ Len(engine) = 1 /\ engine[1].outcome = "ok"

(***************************************************************************)
(* Properties of all public operations.                                    *)
(***************************************************************************)
\* The exception classes the operations declare: validation, scraping, download.
Taxonomy == {"ValidationError", "ScrapingError", "VideoDownloadError"}

\* The class of the error a failed sub-operation raised first, "" when the code
\* itself raised the failure (no file, an empty file, a .part file).
CauseOf(how) ==
    CASE how \in {"mkdir", "open_failed"} -> "OSError"
      [] how = "dump_failed" -> "TypeError"
      [] how = "raise" -> "DownloadError"
      [] OTHER -> ""

\* The exceptions of download_video_content and _save_json_content that
\* save_parsed_thread_data caught and logged, in order.
IsErrorRecord(record) == record.level = "error"
Caught == SelectSeq(log, IsErrorRecord)

C14_OnceUnderItemId ==
    \A m, n \in 1..Len(engine) :
       /\ engine[m].item = engine[n].item => m = n
       /\ engine[n].outtmpl = VideoPath(engine[n].item)

(***************************************************************************)
(* Properties of the layout a run leaves.                                  *)
(***************************************************************************)
\* The replies of the thread that have an id.
Saveable == {j \in 1..Len(replies) : HasId(j)}

\* C15: in every state of a run on a thread,
\*  - every directory created is the thread's directory, one below it, or one
\*    of those that lead to it, and every file lies under the thread's
\*    directory output/{author}/{thread_id}/;
\*  - every file under replies/ lies in the directory of a reply of the thread
\*    that has an id, a video file holds the video of that very reply, and the
\*    engine was pointed into the directory of the item it downloaded for;
\*  - a reply's files do not depend on its siblings: once the run has ended,
\*    a reply with an id none of whose own operations (and none of the root's)
\*    was made to fail has its text and its video written, whatever was made
\*    to fail for the other replies.
C15_SubtreeIsolation ==
    IsThread =>
      /\ \A d \in dirs : IsPrefix(d, ItemDir(0)) \/ IsPrefix(ItemDir(0), d)
      /\ \A path \in DOMAIN files :
            /\ IsPrefix(ItemDir(0), path)
            /\ ItemOfPath(path) \in {0} \cup Saveable
            /\ files[path].url # "" =>
                  files[path].url = ItemVideos(ItemOfPath(path))[1]["video_url"]
      /\ \A n \in 1..Len(engine) : IsPrefix(ItemDir(engine[n].item), engine[n].outtmpl)
      /\ SaveEnded =>
            \A j \in Saveable :
               (\A n \in 1..Len(failed) : failed[n].item \notin {0, j})
                  => ExpectedPaths(j) \subseteq DOMAIN files

(***************************************************************************)
(* Properties of the order of a run.                                       *)
(***************************************************************************)
\* The place of a sub-operation in the processing order: the root before the
\* replies, the replies as they come in the list; for one item its directory,
\* then its text, then its video.
OpRank(item, op) ==
    3 * item + (CASE op = "dir" -> 0 [] op = "text" -> 1 [] op = "video" -> 2)
PathRank(path) == OpRank(ItemOfPath(path), IF IsTextPath(path) THEN "text" ELSE "video")

\* The sub-operation a log record is about: the reply a warning shows; for an
\* error, the item whose directory holds the path it names or whose video has
\* the URL it names.
LogRank(record) ==
    IF record.level = "warning"
    THEN OpRank(CHOOSE k \in 1..Len(replies) : replies[k] = record.info.val, "dir")
    ELSE LET item == IF record.path # <<>> THEN ItemOfPath(record.path)
                     ELSE IF record.url = RootVideoUrl THEN 0
                     ELSE CHOOSE k \in 1..Len(replies) : VideoUrls[k] = record.url
         IN  OpRank(item, IF record.site = "reply_text" THEN "text" ELSE "video")

\* The places of the entries of a saved_files, a failure list, a log and a list
\* of engine invocations, past the first `old` entries of each.
RanksPast(old, saved, fail, ledger, calls) ==
    {PathRank(saved[n]) : n \in (old[1] + 1)..Len(saved)}
    \cup {OpRank(fail[n].item, fail[n].op) : n \in (old[2] + 1)..Len(fail)}
    \cup {LogRank(ledger[n]) : n \in (old[3] + 1)..Len(ledger)}
    \cup {OpRank(calls[n].item, "video") : n \in (old[4] + 1)..Len(calls)}

\* C16: in every step of a run on a thread, saved_files, the failures, the
\* log and the engine's invocations only grow, each by at most one entry at its
\* end; the reply being processed never goes back; and what a step appends is
\* about a sub-operation that comes, in the processing order (root first, then
\* the replies in list order, text before video), after those of every entry
\* appended before.
C16_ProcessingOrder ==
    [][IsThread =>
         /\ IsPrefix(saved_files, saved_files') /\ Len(saved_files') <= Len(saved_files) + 1
         /\ IsPrefix(failed, failed') /\ Len(failed') <= Len(failed) + 1
         /\ IsPrefix(log, log') /\ Len(log') <= Len(log) + 1
         /\ IsPrefix(engine, engine') /\ Len(engine') <= Len(engine) + 1
         /\ reply_i' >= reply_i
         /\ \A new \in RanksPast(<<Len(saved_files), Len(failed), Len(log), Len(engine)>>,
                                  saved_files', failed', log', engine') :
               \A old \in RanksPast(<<0, 0, 0, 0>>, saved_files, failed, log, engine) :
                  old < new]_vars

\* C16 witness: a run on two replies has returned after saving the root's text
\* and video and both of the second reply's files, the first reply's text
\* write and download having failed.
C16_Witness ==
    /\ IsThread /\ save_pc = "returned"
    /\ saved_files = <<TextPath(0), VideoPath(0), TextPath(2), VideoPath(2)>>
    /\ Pattern(failed) = <<<<1, "text">>, <<1, "video">>>>
    /\ Len(log) = 2 /\ Len(engine) = 3

(***************************************************************************)
(* Properties of the text files.                                           *)
(***************************************************************************)
\* The text of item i, and whether it is absent or empty.
TextOf(i) ==
    IF i = 0 THEN Get(pd, "thread_text_content", Absent)
    ELSE Get(replies[i], "reply_text_content", Absent)
NoText(i) == TextOf(i) \in EmptyTexts

\* The environment made a directory creation or the root's text write fail,
\* which ends the run.
Aborted ==
    \E n \in 1..Len(failed) :
       failed[n].op = "dir" \/ (failed[n].item = 0 /\ failed[n].op = "text")

\* Item i's video download was attempted.
VideoTried(i) ==
    \/ \E n \in 1..Len(engine) : engine[n].item = i /\ engine[n].outtmpl = VideoPath(i)
    \/ InSeq(Failure(i, "video", "mkdir"), failed)

\* C17: in a run on a thread whose texts are of any shape,
\*  - a text file exists only for an item whose text is present and not
\*    empty, and it holds that text;
\*  - an item with an absent or empty text has no text path in saved_files,
\*    no failure of a text write and no log record about its text file;
\*  - once the run has ended without a directory creation or the root's text
\*    write having been made to fail, the video download of every such item
\*    was attempted and every later item was processed: its directory
\*    exists, its text was written or its write failed, and its download
\*    was attempted.
C17_TextOnlyWhenNonEmpty ==
    \A i \in 0..Len(replies) :
       /\ TextPath(i) \in DOMAIN files =>
             ~NoText(i) /\ files[TextPath(i)].text \in {TextOf(i), PyNone}
       /\ NoText(i) =>
             /\ ~InSeq(TextPath(i), saved_files)
             /\ \A n \in 1..Len(failed) : failed[n].item = i => failed[n].op # "text"
             /\ \A n \in 1..Len(log) : log[n].path # TextPath(i)
             /\ (SaveEnded /\ ~Aborted) =>
                   /\ save_pc = "returned"
                   /\ \A k \in i..Len(replies) :
                         /\ ItemDir(k) \in dirs
                         /\ VideoTried(k)
                         /\ (k > i /\ ~NoText(k)) =>
                               \/ TextPath(k) \in DOMAIN files
                               \/ \E n \in 1..Len(failed) :
                                     failed[n].item = k /\ failed[n].op = "text"

\* C17 witness: a run on a root whose text is an empty dict and a reply with
\* a text has returned: the root's video and the reply's text and video are
\* saved, nothing failed, nothing is logged.
C17_Witness ==
    /\ parsed_data \in TextThreads /\ Len(replies) = 1
    /\ TextOf(0) = PyDict(EmptyDict) /\ TextOf(1) = SomeText
    /\ save_pc = "returned" /\ failed = <<>> /\ log = <<>>
    /\ saved_files = <<VideoPath(0), TextPath(1), VideoPath(1)>>

(***************************************************************************)
(* Properties of the failures that are not downloads.                      *)
(***************************************************************************)
\* The items of the thread that are processed: the root and the replies with an id.
Processed == {0} \cup Saveable
Saved == {saved_files[n] : n \in 1..Len(saved_files)}
Logged(path) == \E n \in 1..Len(log) : log[n].level = "error" /\ log[n].path = path

\* C18: in a run on a thread where the environment made exactly one
\* sub-operation fail and that is the write of the text file of item i (the
\* root or a reply): the failure is logged, the text path is not in
\* saved_files, the run does not raise, and once it has ended saved_files
\* holds the video of item i and the text and video of every later item.
C18_TextFailureContinues ==
    (IsThread /\ Len(failed) = 1 /\ failed[1].op = "text") =>
       LET i == failed[1].item
       IN  /\ Logged(TextPath(i))
           /\ TextPath(i) \notin Saved
           /\ save_pc # "raised"
           /\ SaveEnded =>
                 \A k \in Processed : k >= i => ExpectedPaths(k) \ {TextPath(i)} \subseteq Saved

\* C19: in a run on a thread where the environment made exactly one
\* sub-operation fail and that is the creation of the directory of item i:
\* the failure is logged, no text and no video of item i is written and the
\* engine is not invoked for it, the run does not raise, and once it has ended
\* saved_files holds the text and video of every other item.
C19_DirFailureContinues ==
    (IsThread /\ Len(failed) = 1 /\ failed[1].op = "dir") =>
       LET i == failed[1].item
       IN  /\ Logged(ItemDir(i))
           /\ TextPath(i) \notin DOMAIN files /\ VideoPath(i) \notin DOMAIN files
           /\ \A n \in 1..Len(engine) : engine[n].item # i
           /\ save_pc # "raised"
           /\ SaveEnded =>
                 \A k \in Processed \ {i} : ExpectedPaths(k) \subseteq Saved

(***************************************************************************)
(* Properties of fetch_tweet_and_replies.                                  *)
(***************************************************************************)
\* The phases of a fetch in the order the code goes through them.
PhaseRank(pc) ==
    CASE pc = "idle" -> 0
      [] pc = "tweet_validate" -> 1 [] pc = "tweet_actor" -> 2 [] pc = "tweet_dataset" -> 3
      [] pc = "replies_validate" -> 4 [] pc = "replies_actor" -> 5
      [] pc = "replies_dataset" -> 6
      [] pc \in {"returned", "raised"} -> 7

\* The backend failed on request n, or answered the root's dataset read with no item.
FailedAt(n) ==
    \/ backend[n].outcome = "raise"
    \/ backend[n].actor = "tweet" /\ backend[n].call = "dataset" /\ backend[n].items = 0

\* C20: in a call of fetch_tweet_and_replies,
\*  - every request for the root precedes every request for the replies, no
\*    request is made twice, and every step moves to a later phase;
\*  - when the root fetch has failed (its validation, a request, or an empty
\*    dataset) no request for the replies is ever made;
\*  - when either fetch has failed the operation has raised, an error of the
\*    taxonomy, and yields no tweet and no replies; it returns only with the
\*    tweet and the replies of two fetches that both succeeded.
C20_RootThenRepliesOrNothing ==
    /\ [](operation = "fetch_tweet_and_replies" =>
            /\ \A m, n \in 1..Len(backend) :
                  /\ (m < n /\ backend[m].actor = "replies") => backend[n].actor = "replies"
                  /\ (backend[m].actor = backend[n].actor
                        /\ backend[m].call = backend[n].call) => m = n
            /\ \A n \in 1..Len(backend) :
                  FailedAt(n) =>
                     /\ n = Len(backend) /\ fetch_pc = "raised"
                     /\ backend[n].actor = "tweet" =>
                           \A m \in 1..Len(backend) : backend[m].actor = "tweet"
            /\ fetch_pc = "raised" =>
                  /\ fetched.kind \in {"ValidationError", "ScrapingError"}
                  /\ fetched.tweet = 0 /\ fetched.replies = <<>>
                  /\ fetched.step \in {"tweet_validate", "tweet_actor", "tweet_dataset",
                                        "tweet_empty"} =>
                        \A m \in 1..Len(backend) : backend[m].actor = "tweet"
            /\ fetch_pc = "returned" =>
                  /\ Len(backend) = 4 /\ \A n \in 1..4 : ~FailedAt(n)
                  /\ fetched.kind = "return" /\ fetched.tweet = Items(backend[2].items)[1]
                  /\ fetched.replies = Items(backend[4].items))
    /\ [][operation = "fetch_tweet_and_replies" =>
            PhaseRank(fetch_pc') > PhaseRank(fetch_pc)]_vars

\* C20 witness: fetch_tweet_and_replies has raised because the actor of the
\* replies failed, after the root was fetched: no tweet is returned.
C20_Witness ==
    /\ operation = "fetch_tweet_and_replies" /\ fetch_pc = "raised"
    /\ Len(backend) = 3 /\ backend[2].items = 1
    /\ backend[3].actor = "replies" /\ backend[3].outcome = "raise"
    /\ fetched.kind = "ScrapingError" /\ fetched.tweet = 0 /\ fetched.replies = <<>>

\* The root fetch has failed on a backend request under fetch_tweet_and_replies.
C20_RootFailed ==
    /\ operation = "fetch_tweet_and_replies" /\ fetch_pc = "raised"
    /\ Len(backend) = 1 /\ backend[1].outcome = "raise"

(***************************************************************************)
(* Properties of the check that follows a download.                        *)
(***************************************************************************)
\* The engine was invoked in this step.
Invoked == Len(engine') = Len(engine) + 1
LastCall == engine'[Len(engine')]

\* C21: in a run on a thread whose items carry any number of videos,
\*  - a step that invokes the engine appends the output path to saved_files
\*    exactly when, after the invocation, a file of size greater than zero is
\*    at {output_dir}/{video_id}.mp4; when the file is missing or empty (a
\*    .part file left or not) the step logs a download error and appends
\*    nothing;
\*  - a video path is appended only by a step that invoked the engine on it;
\*  - once the first download for an item has failed, the engine is not
\*    invoked again for that item in the run.
C21_VerifiedNotRetried ==
    /\ [][/\ Invoked =>
               IF LastCall.outcome # "raise" /\ LastCall.outtmpl \in DOMAIN files'
                     /\ files'[LastCall.outtmpl].size > 0
               THEN saved_files' = Append(saved_files, LastCall.outtmpl) /\ log' = log
               ELSE /\ saved_files' = saved_files
                    /\ Len(log') = Len(log) + 1
                    /\ log'[Len(log')].level = "error"
                    /\ log'[Len(log')].info.kind = "VideoDownloadError"
           /\ (saved_files' # saved_files /\ ~IsTextPath(saved_files'[Len(saved_files')])) =>
                  Invoked /\ LastCall.outtmpl = saved_files'[Len(saved_files')]]_vars
    /\ [](\A m, n \in 1..Len(engine) :
             (/\ m < n
              /\ engine[m].outcome # "ok"
              /\ \A k \in 1..(m - 1) : engine[k].item # engine[m].item)
                => engine[n].item # engine[m].item)

(***************************************************************************)
(* Properties of the two record shapes.                                    *)
(***************************************************************************)
\* Variant v of record td written with the keys of the other shape.
Rekeyed(td, v) ==
    ((IF IsPrimary(td) THEN "content_type" ELSE "type") :> TypeOf(td, v))
    @@ ((IF IsPrimary(td) THEN "url" ELSE "src") :> UrlOf(td, v))
    @@ (IF "bitrate" \in DOMAIN v THEN "bitrate" :> v["bitrate"] ELSE EmptyDict)

\* The record that carries the variants of td, in the same order, in the other shape.
OtherShape(td) ==
    LET l == [i \in 1..Len(ListOf(td)) |-> Rekeyed(td, ListOf(td)[i])]
    IN  IF IsPrimary(td) THEN MediaRecord(PyList(<<VideoMedia(PyList(l))>>))
        ELSE PrimaryRecord(PyList(l))

\* C22: the first call on a record that carries one variant list, in either
\* shape, ends as the call on the record that carries the same variants in the
\* other shape: the same URL (or None) is returned.
C22_ShapesAgree ==
    (FirstCalled /\ HasOneList(tweet_data_in)) =>
        LET other == extract_video_url(OtherShape(tweet_data_in))
        IN  returned[1] = [kind |-> other.kind, value |-> other.value, cause |-> other.cause]

\* C22 witness: a primary-shape record whose first entry is no mp4 and has the
\* higher bitrate, its second an mp4: the mp4's URL is returned, as it is for
\* the media-details record with the same two variants.
C22_Witness ==
    /\ FirstCalled /\ IsPrimary(tweet_data_in)
    /\ ListOf(tweet_data_in) = <<[type |-> "application/x-mpegURL", bitrate |-> 2, src |-> "u1"],
                                 [type |-> MP4, bitrate |-> 1, src |-> "u2"]>>
    /\ returned[1] = ReturnedValue("u2")
    /\ OtherShape(tweet_data_in) =
          MediaRecord(PyList(<<VideoMedia(PyList(
              <<[content_type |-> "application/x-mpegURL", bitrate |-> 2, url |-> "u1"],
                [content_type |-> MP4, bitrate |-> 1, url |-> "u2"]>>))>>))

(***************************************************************************)
(* Properties of extract_video_url's effect on its argument.               *)
(***************************************************************************)
\* C23: after any number of calls the record is as it was given: its variant
\* lists hold the same entries in the same order, for both shapes and on
\* every branch (an mp4 variant found, the non-mp4 fallback, no video, a raise).
C23_InputUnchanged == Called => tweet_data = tweet_data_in

(***************************************************************************)
(* Properties of the videos/ directories.                                  *)
(***************************************************************************)
\* Item i has a video entry with a URL that is not empty.
HasVideoUrl(i) ==
    \E n \in 1..Len(ItemVideos(i)) :
       "video_url" \in DOMAIN ItemVideos(i)[n] /\ ItemVideos(i)[n]["video_url"] # ""
VideosDir(i) == ItemDir(i) \o <<"videos">>

\* C24: in a run on a thread whose video entries may lack a URL,
\*  - the videos/ directory of an item exists only if the item has a video
\*    entry with a non-empty URL;
\*  - for an item without one the engine is not invoked, no download failure
\*    is recorded or logged, and nothing lies under its videos/ directory;
\*  - once a run in which the environment made nothing fail has ended, it has
\*    returned, nothing is logged, every item has its text file, and
\*    saved_files holds the text of every item and the video of those with a URL.
C24_VideosDirOnlyWithUrl ==
    /\ \A i \in 0..Len(replies) :
          /\ VideosDir(i) \in dirs => HasVideoUrl(i)
          /\ ~HasVideoUrl(i) =>
                /\ \A n \in 1..Len(engine) : engine[n].item # i
                /\ \A n \in 1..Len(failed) : failed[n].item = i => failed[n].op # "video"
                /\ \A n \in 1..Len(log) : ~IsPrefix(VideosDir(i), log[n].path)
                /\ \A path \in DOMAIN files : ~IsPrefix(VideosDir(i), path)
    /\ (SaveEnded /\ failed = <<>>) =>
          /\ save_pc = "returned" /\ log = <<>>
          /\ \A i \in 0..Len(replies) : TextPath(i) \in DOMAIN files
          /\ Saved = {TextPath(i) : i \in 0..Len(replies)}
                      \cup {VideoPath(i) : i \in {k \in 0..Len(replies) : HasVideoUrl(k)}}

\* C24 witness: the run on a root with a text and no video entry, and a reply
\* whose video entry has an empty URL, has returned: two text files, no
\* videos/ directory, no failure.
C24_Witness ==
    /\ parsed_data \in UrlThreads /\ Len(replies) = 1
    /\ ItemVideos(0) = <<>> /\ ItemVideos(1) = <<[video_url |-> "", tweet_id |-> ReplyIds[1]]>>
    /\ save_pc = "returned" /\ failed = <<>> /\ log = <<>>
    /\ saved_files = <<TextPath(0), TextPath(1)>>
    /\ dirs = Prefixes(ItemDir(1))

(***************************************************************************)
(* Properties of what a run reports as saved.                              *)
(***************************************************************************)
\* C25: in a first run and in a second run over the directory the first left,
\* every video path in saved_files is that of a file the engine wrote in the
\* current run: an invocation of this run on that path ended with the
\* complete file, and the file there is this run's.
C25_SavedByThisRun ==
    \A n \in 1..Len(saved_files) :
       ~IsTextPath(saved_files[n]) =>
          /\ saved_files[n] \in DOMAIN files
          /\ files[saved_files[n]].run = run
          /\ \E m \in 1..Len(engine) :
                engine[m].outtmpl = saved_files[n] /\ engine[m].outcome = "ok"

(***************************************************************************)
(* Properties of a record that carries both shapes.                        *)
(***************************************************************************)
\* The primary variant list of a record, <<>> when it has no primary shape.
PrimaryList(td) ==
    IF "video" \in DOMAIN td.val THEN td.val["video"].val["variants"].val ELSE <<>>
\* The variant lists of the mediaDetails entries of type video, <<>> for a photo.
MediaLists(td) ==
    [i \in 1..Len(td.val["mediaDetails"].val) |->
        LET m == td.val["mediaDetails"].val[i]
        IN  IF m["type"] = "video" THEN m["video_info"]["variants"].val ELSE <<>>]
\* The URL selected from one list in one shape: the first entry of top rank
\* among the mp4 entries, or among all entries when none is mp4.
BestOf(one) == UrlOf(one, ListOf(one)[First(Top(one, Partition(one)))])

\* C26: the first call on a record with a mediaDetails list, with or without a
\* primary shape, returns
\*  - the selection from the primary list alone when that list has an entry;
\*  - else the selection from the list of the first mediaDetails entry of
\*    type video whose list has an entry, alone;
\*  - else None.
C26_PrimaryThenFirstMedia ==
    FirstCalled =>
        LET td == tweet_data_in
            nonempty == {i \in 1..Len(MediaLists(td)) : MediaLists(td)[i] # <<>>}
        IN  returned[1] =
               ReturnedValue(
                  IF PrimaryList(td) # <<>>
                  THEN BestOf(PrimaryRecord(PyList(PrimaryList(td))))
                  ELSE IF nonempty # {}
                  THEN BestOf(MediaRecord(PyList(<<VideoMedia(PyList(
                                              MediaLists(td)[First(nonempty)]))>>)))
                  ELSE None)

\* C26 witness: the primary list holds a non-mp4 variant of bitrate 0 and both
\* mediaDetails entries an mp4 variant of a higher bitrate: the primary
\* variant's URL is returned.
C26_Witness ==
    /\ FirstCalled
    /\ tweet_data_in =
          BothRecord(PyList(<<[type |-> "application/x-mpegURL", bitrate |-> 0, src |-> "u1"]>>),
                     PyList(<<VideoMedia(PyList(<<[content_type |-> MP4, bitrate |-> 1,
                                                   url |-> "u2"]>>)),
                              VideoMedia(PyList(<<[content_type |-> MP4, bitrate |-> 2,
                                                   url |-> "u2"]>>))>>))
    /\ returned[1] = ReturnedValue("u1")

\* The first mediaDetails entry decides when there is no primary list: its
\* variant of bitrate 1 is returned, not the second entry's of bitrate 2.
C26_FirstMediaDecides ==
    /\ FirstCalled
    /\ tweet_data_in =
          MediaRecord(PyList(<<VideoMedia(PyList(<<[content_type |-> MP4, bitrate |-> 1,
                                                    url |-> "u1"]>>)),
                               VideoMedia(PyList(<<[content_type |-> MP4, bitrate |-> 2,
                                                    url |-> "u2"]>>))>>))
    /\ returned[1] = ReturnedValue("u1")

====
